---- MODULE Spec2Model ----
(***************************************************************************)
(* A model of maki: the Makefile target extractor (src/src/makefile.rs),   *)
(* the content-addressed parse cache (src/src/cache.rs) and the driver     *)
(* that combines them (src/src/main.rs).                                   *)
(*                                                                         *)
(* Text is a sequence of one-character strings; positions are 1-based      *)
(* (Rust's byte offset + 1; every character of the model is ASCII, so byte *)
(* offsets and character indices coincide).  An Option<T> is a sequence of *)
(* length 0 (None) or 1 (Some).                                            *)
(***************************************************************************)
EXTENDS Integers, Sequences, FiniteSets, TLC

VARIABLES
  content,       \* the text handed to parse_makefile_content
  options,       \* ParseOptions of the first parse
  targets,       \* Option<Vec<Target>>: the result of the first parse
  targets2,      \* Option<Vec<Target>>: the result of a second parse of the same input
  fs,            \* file system: canonical path -> file (kind, text, mtime)
  cache,         \* the in-memory Cache value (version, entries)
  disk,          \* the persisted cache file: missing, corrupt, or a serialized Cache
  last,          \* the last two calls of the cache API, newest first
  run,           \* the state of the current process invocation
  used           \* how many file edits, API calls and invocations have happened

vars == <<content, options, targets, targets2, fs, cache, disk, last, run, used>>

parseVars == <<content, options, targets, targets2>>

storeVars == <<fs, cache, disk, last, run, used>>

(***************************************************************************)
(* Characters                                                              *)
(***************************************************************************)
Upper == {"A","B","C","D","E","F","G","H","I","J","K","L","M",
          "N","O","P","Q","R","S","T","U","V","W","X","Y","Z"}

Lower == {"a","b","c","d","e","f","g","h","i","j","k","l","m",
          "n","o","p","q","r","s","t","u","v","w","x","y","z"}

Digit == {"0","1","2","3","4","5","6","7","8","9"}

\* char::is_whitespace, restricted to ASCII
Whitespace == {" ", "\t", "\n", "\r"}

\* char::is_ascii_alphanumeric
AsciiAlphanumeric == Upper \cup Lower \cup Digit

\* the regex class \w (ASCII part), which decides \b
WordChar == AsciiAlphanumeric \cup {"_"}

\* the characters a target or variable name can hold, in byte order
\* (% - . / 0-9 A-Z _ a-z): what str's Ord compares
NameBytes == <<"%","-",".","/","0","1","2","3","4","5","6","7","8","9",
               "A","B","C","D","E","F","G","H","I","J","K","L","M","N","O",
               "P","Q","R","S","T","U","V","W","X","Y","Z","_",
               "a","b","c","d","e","f","g","h","i","j","k","l","m","n","o",
               "p","q","r","s","t","u","v","w","x","y","z">>

\* the rank of a name character in byte order
CharCode(c) == CHOOSE i \in 1..Len(NameBytes) : NameBytes[i] = c

(***************************************************************************)
(* str helpers (std)                                                       *)
(***************************************************************************)
Min(S) == CHOOSE x \in S : \A y \in S : x <= y

None == <<>>

Some(v) == <<v>>

\* &s[i..] with i 1-based
From(s, i) == SubSeq(s, i, Len(s))

\* str::starts_with
starts_with(s, pat) == Len(s) >= Len(pat) /\ SubSeq(s, 1, Len(pat)) = pat

\* str::find(&str): position of the first occurrence, 0 when there is none
find(s, pat) ==
  LET hits == {i \in 1..(Len(s) - Len(pat) + 1) : SubSeq(s, i, i + Len(pat) - 1) = pat}
  IN IF hits = {} THEN 0 ELSE Min(hits)

\* str::find(|c| class): position of the first character in the class, 0 when none
find_in(s, class) ==
  LET hits == {i \in 1..Len(s) : s[i] \in class}
  IN IF hits = {} THEN 0 ELSE Min(hits)

\* position of the first character outside the class, Len(s) + 1 when none
first_outside(s, class) ==
  LET hits == {i \in 1..Len(s) : s[i] \notin class}
  IN IF hits = {} THEN Len(s) + 1 ELSE Min(hits)

\* str::contains(char)
contains(s, c) == \E i \in 1..Len(s) : s[i] = c

\* str::trim_start
trim_start(s) == From(s, first_outside(s, Whitespace))

\* str::trim_end
trim_end(s) ==
  LET keep == {i \in 1..Len(s) : s[i] \notin Whitespace}
  IN IF keep = {} THEN <<>> ELSE SubSeq(s, 1, CHOOSE i \in keep : \A j \in keep : j <= i)

\* str::trim
trim(s) == trim_start(trim_end(s))

\* str::trim_start_matches('#')
trim_start_matches(s, c) == From(s, first_outside(s, {c}))

\* str::cmp on two strings: TRUE when a < b, byte-wise lexicographic
RECURSIVE str_lt(_, _)
str_lt(a, b) ==
  IF b = <<>> THEN FALSE
  ELSE IF a = <<>> THEN TRUE
  ELSE IF a[1] = b[1] THEN str_lt(Tail(a), Tail(b))
  ELSE CharCode(a[1]) < CharCode(b[1])

\* str::lines: split at "\n", drop one trailing "\r" per line, no final empty line
RECURSIVE str_lines(_)
str_lines(text) ==
  IF text = <<>> THEN <<>>
  ELSE LET nl == find_in(text, {"\n"})
           raw == IF nl = 0 THEN text ELSE SubSeq(text, 1, nl - 1)
           line == IF raw # <<>> /\ raw[Len(raw)] = "\r" /\ nl # 0
                   THEN SubSeq(raw, 1, Len(raw) - 1) ELSE raw
       IN <<line>> \o (IF nl = 0 THEN <<>> ELSE str_lines(From(text, nl + 1)))

\* [a, b].join(sep)
RECURSIVE join(_, _)
join(parts, sep) ==
  IF parts = <<>> THEN <<>>
  ELSE IF Len(parts) = 1 THEN parts[1]
  ELSE parts[1] \o sep \o join(Tail(parts), sep)

\* Vec::reverse
reverse(s) == [i \in 1..Len(s) |-> s[Len(s) + 1 - i]]

(***************************************************************************)
(* Line classifier (makefile.rs)                                           *)
(***************************************************************************)
\* one `if let Some(pos) = line.find(op)` block of is_variable_assignment
op_without_colon_before(line, op) ==
  LET pos == find(line, op)
  IN pos # 0 /\ ~contains(SubSeq(line, 1, pos - 1), ":")

is_variable_assignment(line) ==
  \/ op_without_colon_before(line, <<":", "=">>)
  \/ op_without_colon_before(line, <<"?", "=">>)
  \/ op_without_colon_before(line, <<"+", "=">>)
  \/ LET pos == find(line, <<"=">>)
     IN /\ pos > 1
        /\ line[pos - 1] \notin {":", "+", "?"}
        /\ (pos + 1 > Len(line) \/ line[pos + 1] # "=")
        /\ ~contains(SubSeq(line, 1, pos - 1), ":")

is_target_specific_variable(line) ==
  LET first_colon == find(line, <<":">>)
      after_trimmed == trim_start(From(line, first_colon + 1))
      space_pos == find_in(after_trimmed, Whitespace \cup {":", "?", "+", "="})
      potential_var == SubSeq(after_trimmed, 1, space_pos - 1)
      rest == trim_start(From(after_trimmed, space_pos))
  IN /\ first_colon # 0
     /\ space_pos # 0
     /\ potential_var # <<>>
     /\ \A i \in 1..Len(potential_var) : potential_var[i] \in AsciiAlphanumeric \cup {"_"}
     /\ \/ starts_with(rest, <<":", "=">>)
        \/ starts_with(rest, <<"?", "=">>)
        \/ starts_with(rest, <<"+", "=">>)
        \/ starts_with(rest, <<"=">>)

\* the character class of target_regex: [A-Za-z0-9._/\-%]
TargetNameChar == AsciiAlphanumeric \cup {".", "_", "/", "-", "%"}

\* target_regex.captures(trimmed): ^([A-Za-z0-9._/\-%]+)\s*: , group 1 as an Option
target_regex(trimmed) ==
  LET name_end == first_outside(trimmed, TargetNameChar)
      after_name == From(trimmed, name_end)
      colon == first_outside(after_name, Whitespace)
  IN IF name_end > 1 /\ colon <= Len(after_name) /\ after_name[colon] = ":"
     THEN Some(SubSeq(trimmed, 1, name_end - 1))
     ELSE None

(***************************************************************************)
(* Description derivation (makefile.rs, extract_description)               *)
(***************************************************************************)
\* a faulty inline branch: the text after the marker is not trimmed
inline_description_untrimmed(target) ==
  LET pos == find(target, <<"#", "#">>)
      desc == From(target, pos + 2)
  IN IF pos # 0 /\ desc # <<>> THEN Some(desc) ELSE None

\* the inline `##` branch: the trimmed text after the first "##", when not empty
inline_description(target) ==
  LET pos == find(target, <<"#", "#">>)
      desc == trim(From(target, pos + 2))
  IN IF pos # 0 /\ desc # <<>> THEN Some(desc) ELSE None

\* the upward walk `while i > 0`: the comment fragments, nearest line first.
\* i is the 1-based index of the line the previous iteration looked at.
RECURSIVE preceding_comments(_, _)
preceding_comments(lines, i) ==
  IF i <= 1 THEN <<>>
  ELSE LET prev_line == trim(lines[i - 1])
           comment == trim(trim_start_matches(prev_line, "#"))
       IN IF starts_with(prev_line, <<"#">>)
          THEN (IF comment # <<>> THEN <<comment>> ELSE <<>>)
               \o preceding_comments(lines, i - 1)
          ELSE IF prev_line = <<>>
          THEN (IF i - 1 > 1 /\ starts_with(trim(lines[i - 2]), <<"#">>)
                THEN preceding_comments(lines, i - 1)
                ELSE <<>>)
          ELSE <<>>

\* a faulty join: the fragments are left nearest line first
extract_description_unreversed(lines, target_line) ==
  LET inline == inline_description(lines[target_line])
      comments == preceding_comments(lines, target_line)
  IN IF inline # None THEN inline
     ELSE IF comments = <<>> THEN None
     ELSE Some(join(comments, <<" ">>))

extract_description(lines, target_line) ==
  LET inline == inline_description(lines[target_line])
      comments == preceding_comments(lines, target_line)
  IN IF inline # None THEN inline
     ELSE IF comments = <<>> THEN None
     ELSE Some(join(reverse(comments), <<" ">>))

(***************************************************************************)
(* Required-variable derivation (makefile.rs, extract_required_vars)       *)
(***************************************************************************)
VarNameChar == Upper \cup Digit \cup {"_"}

\* hint_regex \b([A-Z][A-Z0-9_]*)=([^\s,\)]+) anchored at position i:
\* None, or Some of the captures and the position after the match
hint_regex_at(text, i) ==
  LET name_len == first_outside(From(text, i), VarNameChar) - 1
      eq == i + name_len
      stop == find_in(From(text, eq + 1), Whitespace \cup {",", ")"})
      value_len == IF stop = 0 THEN Len(text) - eq ELSE stop - 1
  IN IF /\ text[i] \in Upper
        /\ (i = 1 \/ text[i - 1] \notin WordChar)
        /\ eq <= Len(text)
        /\ text[eq] = "="
        /\ value_len >= 1
     THEN Some([name |-> SubSeq(text, i, eq - 1),
                hint |-> Some(SubSeq(text, eq + 1, eq + value_len)),
                end |-> eq + value_len + 1])
     ELSE None

\* recipe_var_regex \$[\(\{]([A-Z][A-Z0-9_]*)[\)\}] anchored at position i
recipe_var_regex_at(text, i) ==
  LET name_len == first_outside(From(text, i + 2), VarNameChar) - 1
      close == i + 2 + name_len
  IN IF /\ text[i] = "$"
        /\ i + 2 <= Len(text)
        /\ text[i + 1] \in {"(", "{"}
        /\ text[i + 2] \in Upper
        /\ close <= Len(text)
        /\ text[close] \in {")", "}"}
     THEN Some([name |-> SubSeq(text, i + 2, close - 1), end |-> close + 1])
     ELSE None

\* hint_regex.captures_iter(text): the leftmost non-overlapping matches from i on
RECURSIVE hint_captures(_, _)
hint_captures(text, i) ==
  IF i > Len(text) THEN <<>>
  ELSE LET m == hint_regex_at(text, i)
       IN IF m # None THEN <<m[1]>> \o hint_captures(text, m[1].end)
          ELSE hint_captures(text, i + 1)

\* recipe_var_regex.captures_iter(line)
RECURSIVE recipe_captures(_, _)
recipe_captures(text, i) ==
  IF i > Len(text) THEN <<>>
  ELSE LET m == recipe_var_regex_at(text, i)
       IN IF m # None THEN <<m[1].name>> \o recipe_captures(text, m[1].end)
          ELSE recipe_captures(text, i + 1)

\* a faulty list: no name is taken for a built-in
builtin_vars_none == {}

\* Built-in make variables to ignore (the names the recipe regex can capture)
builtin_vars ==
  { <<"C","C">>, <<"C","X","X">>, <<"C","F","L","A","G","S">>,
    <<"C","X","X","F","L","A","G","S">>, <<"L","D","F","L","A","G","S">>,
    <<"L","D","L","I","B","S">>, <<"A","R">>, <<"A","S">>, <<"C","P","P">>,
    <<"F","C">>, <<"M","2","C">>, <<"P","C">>, <<"C","O">>, <<"G","E","T">>,
    <<"L","E","X">>, <<"Y","A","C","C">>, <<"L","I","N","T">>,
    <<"M","A","K","E","F","L","A","G","S">>,
    <<"M","A","K","E","C","M","D","G","O","A","L","S">>,
    <<"C","U","R","D","I","R">>, <<"S","H","E","L","L">>, <<"M","A","K","E">>,
    <<"M","A","K","E","L","E","V","E","L">>,
    <<"@">>, <<"<">>, <<"^">>, <<"?">>, <<"*">>, <<"%">>, <<"+">>, <<"|">> }

\* HashMap::insert
map_insert(m, k, v) == [x \in DOMAIN m \cup {k} |-> IF x = k THEN v ELSE m[x]]

\* the comment text of the preceding comment lines, nearest line first, each
\* followed by one space (the `while i > 0` loop of extract_required_vars)
RECURSIVE preceding_comment_text(_, _)
preceding_comment_text(lines, i) ==
  IF i <= 1 THEN <<>>
  ELSE LET prev_line == trim(lines[i - 1])
           comment == trim(trim_start_matches(prev_line, "#"))
       IN IF starts_with(prev_line, <<"#">>)
          THEN comment \o <<" ">> \o preceding_comment_text(lines, i - 1)
          ELSE IF prev_line = <<>>
          THEN (IF i - 1 > 1 /\ starts_with(trim(lines[i - 2]), <<"#">>)
                THEN preceding_comment_text(lines, i - 1)
                ELSE <<>>)
          ELSE <<>>

\* comment_text: the inline `##` text, then the preceding comment lines
comment_text(lines, target_line) ==
  LET target == lines[target_line]
      pos == find(target, <<"#", "#">>)
  IN (IF pos # 0 THEN From(target, pos + 2) \o <<" ">> ELSE <<>>)
     \o preceding_comment_text(lines, target_line)

\* `for cap in hint_regex.captures_iter(&comment_text)`: later matches overwrite
RECURSIVE insert_hints(_, _)
insert_hints(var_hints, caps) ==
  IF caps = <<>> THEN var_hints
  ELSE insert_hints(map_insert(var_hints, caps[1].name, caps[1].hint), Tail(caps))

\* a faulty merge: the recipe reference is inserted without the contains_key test
merge_recipe_var_overwrite(var_hints, name) == map_insert(var_hints, name, None)

\* `if !var_hints.contains_key(&name) { var_hints.insert(name, None) }`
merge_recipe_var(var_hints, name) ==
  IF name \in DOMAIN var_hints THEN var_hints ELSE map_insert(var_hints, name, None)

\* the body of the recipe loop for the captures of one recipe line
RECURSIVE insert_recipe_vars(_, _)
insert_recipe_vars(var_hints, names) ==
  IF names = <<>> THEN var_hints
  ELSE insert_recipe_vars(
         IF names[1] \in builtin_vars THEN var_hints
         ELSE merge_recipe_var(var_hints, names[1]),
         Tail(names))

\* `while j < lines.len()`: j is the 1-based index of the line to look at
RECURSIVE scan_recipe(_, _, _)
scan_recipe(lines, j, var_hints) ==
  IF j > Len(lines) THEN var_hints
  ELSE LET line == lines[j]
       IN IF /\ ~starts_with(line, <<"\t">>)
             /\ ~starts_with(line, <<" ">>)
             /\ line # <<>>
          THEN var_hints
          ELSE scan_recipe(lines, j + 1,
                           insert_recipe_vars(var_hints, recipe_captures(line, 1)))

\* the keys of a set of names in ascending byte order
RECURSIVE sorted_names(_)
sorted_names(S) ==
  IF S = {} THEN <<>>
  ELSE LET least == CHOOSE x \in S : \A y \in S : x = y \/ str_lt(x, y)
       IN <<least>> \o sorted_names(S \ {least})

\* `for (name, hint) in var_hints`: HashMap iteration visits the keys in an order
\* fixed by the map's RandomState and otherwise unspecified.  A random_state picks
\* a rotation and a direction of the keys (every order of up to three keys).
hashmap_iter(m, random_state) ==
  LET keys == sorted_names(DOMAIN m)
      n == Len(keys)
      rot == IF n = 0 THEN 0 ELSE random_state % n
      rev == IF n = 0 THEN 0 ELSE (random_state \div n) % 2
      rotated == [i \in 1..n |-> keys[((i - 1 + rot) % n) + 1]]
      order == IF rev = 1 THEN reverse(rotated) ELSE rotated
  IN [i \in 1..n |-> [name |-> order[i], hint |-> m[order[i]]]]

\* Vec::insert into a sorted prefix, after every element not greater (stable)
RECURSIVE insert_by_name(_, _)
insert_by_name(sorted, v) ==
  IF sorted = <<>> THEN <<v>>
  ELSE IF str_lt(v.name, sorted[1].name) THEN <<v>> \o sorted
  ELSE <<sorted[1]>> \o insert_by_name(Tail(sorted), v)

RECURSIVE sort_from(_, _)
sort_from(sorted, rest) ==
  IF rest = <<>> THEN sorted
  ELSE sort_from(insert_by_name(sorted, rest[1]), Tail(rest))

\* a faulty sort: descending by name
sort_by_name_descending(vs) == reverse(sort_from(<<>>, vs))

\* a faulty sort: the vector is left in HashMap iteration order
sort_by_name_unsorted(vs) == vs

\* `vars.sort_by(|a, b| a.name.cmp(&b.name))`: a stable sort by name
sort_by_name(vs) == sort_from(<<>>, vs)

\* a faulty scan: the recipe scan starts at the declaration line
extract_required_vars_from_declaration(lines, target_line, random_state) ==
  LET hinted == insert_hints(<<>>, hint_captures(comment_text(lines, target_line), 1))
      var_hints == scan_recipe(lines, target_line, hinted)
  IN sort_by_name(hashmap_iter(var_hints, random_state))

extract_required_vars(lines, target_line, random_state) ==
  LET hinted == insert_hints(<<>>, hint_captures(comment_text(lines, target_line), 1))
      var_hints == scan_recipe(lines, target_line + 1, hinted)
  IN sort_by_name(hashmap_iter(var_hints, random_state))

(***************************************************************************)
(* Target extractor (makefile.rs, parse_makefile_content)                  *)
(***************************************************************************)
\* a faulty skip: the target-scoped check is left out
is_assignment_line_plain_only(trimmed) == is_variable_assignment(trimmed)

\* `if is_variable_assignment(trimmed) || is_target_specific_variable(trimmed)`
is_assignment_line(trimmed) ==
  is_variable_assignment(trimmed) \/ is_target_specific_variable(trimmed)

\* a faulty filter: the pattern-rule check reads include_private
skip_target_one_flag(target_name, opts, seen_names) ==
  \/ contains(target_name, "%") /\ ~opts.include_private
  \/ starts_with(target_name, <<"_">>) /\ ~opts.include_private
  \/ target_name \in seen_names

\* a faulty filter: the duplicate check is left out
skip_target_no_dedup(target_name, opts, seen_names) ==
  \/ contains(target_name, "%") /\ ~opts.include_patterns
  \/ starts_with(target_name, <<"_">>) /\ ~opts.include_private

\* the three `continue` checks on a matched name: pattern rule, private, duplicate
skip_target(target_name, opts, seen_names) ==
  \/ contains(target_name, "%") /\ ~opts.include_patterns
  \/ starts_with(target_name, <<"_">>) /\ ~opts.include_private
  \/ target_name \in seen_names

\* a faulty constructor: the line number is counted from 0
with_required_vars_zero_based(name, description, file, line, required_vars) ==
  [name |-> name, description |-> description, file |-> file,
   line |-> line - 1, required_vars |-> required_vars]

\* Target::with_required_vars
with_required_vars(name, description, file, line, required_vars) ==
  [name |-> name, description |-> description, file |-> file,
   line |-> line, required_vars |-> required_vars]

\* `for (line_num, line) in lines.iter().enumerate()`: line_num is 1-based here,
\* so it is also the 1-indexed line number stored in the Target
RECURSIVE parse_lines(_, _, _, _, _, _, _)
parse_lines(lines, file, opts, random_state, line_num, found, seen_names) ==
  IF line_num > Len(lines) THEN found
  ELSE LET trimmed == trim(lines[line_num])
           caps == target_regex(trimmed)
           emit == /\ trimmed # <<>>
                   /\ ~starts_with(trimmed, <<"#">>)
                   /\ ~is_assignment_line(trimmed)
                   /\ caps # None
                   /\ ~skip_target(caps[1], opts, seen_names)
       IN IF emit
          THEN parse_lines(lines, file, opts, random_state, line_num + 1,
                 Append(found,
                        with_required_vars(caps[1],
                                           extract_description(lines, line_num),
                                           file, line_num,
                                           extract_required_vars(lines, line_num,
                                                                 random_state))),
                 seen_names \cup {caps[1]})
          ELSE parse_lines(lines, file, opts, random_state, line_num + 1,
                           found, seen_names)

parse_makefile_content(text, file, opts, random_state) ==
  parse_lines(str_lines(text), file, opts, random_state, 1, <<>>, {})

(***************************************************************************)
(* Inputs of the extractor                                                 *)
(***************************************************************************)
\* the longest input, in lines
MaxLines == 3

\* the largest RandomState a HashMap is created with
MaxRandomState == 5

RandomStates == 0..MaxRandomState

ParseOptions == [include_private : BOOLEAN, include_patterns : BOOLEAN]

\* declarations, private and pattern names, assignments that look like declarations
ClassifierLines ==
  { <<"b",":">>,
    <<"_","p",":">>,
    <<"%",":">>,
    <<"_","%",":">>,
    <<"b",":"," ","V","=","1">>,
    <<"b",":","=","1">>,
    <<"#"," ","c">>,
    <<" ","t"," ",":">> }

\* comments, blank lines, inline descriptions
DescriptionLines ==
  { <<"#"," ","c">>,
    <<"#"," ","d">>,
    <<>>,
    <<"b",":"," ","#","#"," ","x">>,
    <<"b",":"," ","#","#">>,
    <<"t",":">>,
    <<"#">> }

\* hints, recipes, references to variables and built-ins
VariableLines ==
  { <<"#"," ","E","=","d">>,
    <<"#"," ","C","C","=","g">>,
    <<"b",":">>,
    <<"t",":"," ","$","(","V",")">>,
    <<"\t","$","(","E",")","$","{","V","}">>,
    <<"\t","$","(","C","C",")">>,
    <<"\t","$","(","v",")","$","(","V","_","1",")">>,
    <<" ","t",":">> }

\* every sequence of at most MaxLines lines of a pool
LineSeqs(pool) == UNION {[1..n -> pool] : n \in 0..MaxLines}

\* the text of a file: each line followed by a newline
RECURSIVE file_text(_)
file_text(lines) ==
  IF lines = <<>> THEN <<>> ELSE lines[1] \o <<"\n">> \o file_text(Tail(lines))

\* the longest comment block input, in lines
MaxWalkLines == 5

\* comment blocks broken by blank lines, above a declaration
WalkLines == { <<"#"," ","c">>, <<"#"," ","d">>, <<>>, <<"t",":">> }

WalkSeqs == UNION {[1..n -> WalkLines] : n \in (MaxLines + 1)..MaxWalkLines}

ParseInputs ==
  {file_text(ls) : ls \in LineSeqs(ClassifierLines) \cup LineSeqs(DescriptionLines)
                          \cup LineSeqs(VariableLines) \cup WalkSeqs}

\* the path a lone parse is given
MakefilePath == <<"Makefile">>

DefaultOptions == [include_private |-> FALSE, include_patterns |-> FALSE]

(***************************************************************************)
(* SpecParse: parse_makefile_content applied to bounded inputs             *)
(***************************************************************************)
IdleStoreVars ==
  fs = <<>> /\ cache = <<>> /\ disk = <<>> /\ last = <<>> /\ run = <<>> /\ used = <<>>

InitParse ==
  /\ content \in ParseInputs
  /\ options = DefaultOptions
  /\ targets = None
  /\ targets2 = None
  /\ IdleStoreVars

\* the first call of parse_makefile_content on the input
Parse ==
  /\ targets = None
  /\ \E opts \in ParseOptions, rs \in RandomStates :
       /\ options' = opts
       /\ targets' = Some(parse_makefile_content(content, MakefilePath, opts, rs))
  /\ UNCHANGED <<content, targets2>>
  /\ UNCHANGED storeVars

\* a second call on the same content with the same options
Reparse ==
  /\ targets # None
  /\ targets2 = None
  /\ \E rs \in RandomStates :
       targets2' = Some(parse_makefile_content(content, MakefilePath, options, rs))
  /\ UNCHANGED <<content, options, targets>>
  /\ UNCHANGED storeVars

NextParse == Parse \/ Reparse

SpecParse == InitParse /\ [][NextParse]_vars

(***************************************************************************)
(* Properties of the extractor, checked under SpecParse                    *)
(***************************************************************************)
Lines == str_lines(content)

Parsed == targets # None

Result == targets[1]

ResultNames == {Result[k].name : k \in 1..Len(Result)}

IsPrivate(name) == starts_with(name, <<"_">>)

IsPattern(name) == contains(name, "%")

\* the lines the classifier takes for target declarations
DeclLines ==
  {i \in 1..Len(Lines) :
     LET tr == trim(Lines[i])
     IN /\ tr # <<>>
        /\ ~starts_with(tr, <<"#">>)
        /\ ~is_variable_assignment(tr)
        /\ ~is_target_specific_variable(tr)
        /\ target_regex(tr) # None}

DeclName(i) == target_regex(trim(Lines[i]))[1]

DeclaredNames == {DeclName(i) : i \in DeclLines}

PassesFilters(name) ==
  /\ IsPrivate(name) => options.include_private
  /\ IsPattern(name) => options.include_patterns

\* C4 (as amended): a declared name is emitted if and only if it passes both
\* filters: it does not start with '_' or include_private is set, and it does not
\* contain '%' or include_patterns is set.  So a '_'-led name without '%' follows
\* include_private alone, a name with '%' that is not '_'-led follows
\* include_patterns alone, a name with both needs both options, and a name with
\* neither is emitted whatever the options are.
C4_FilterByOptions ==
  Parsed => \A n \in DeclaredNames : (n \in ResultNames) <=> PassesFilters(n)

\* C4 witness: a parse with include_private set and include_patterns unset of a
\* file that declares a name that is both private and a pattern
C4_Witness ==
  /\ Parsed
  /\ options.include_private /\ ~options.include_patterns
  /\ \E n \in DeclaredNames : IsPrivate(n) /\ IsPattern(n)
  /\ \E n \in DeclaredNames : IsPrivate(n) /\ ~IsPattern(n) /\ n \in ResultNames

\* C4 as stated: a '_'-led declaration is emitted iff include_private, a
\* declaration with '%' iff include_patterns, independently of each other, and
\* other declarations are emitted whatever the options are
C4_AsStated ==
  Parsed => \A n \in DeclaredNames :
    /\ IsPrivate(n) => ((n \in ResultNames) <=> options.include_private)
    /\ IsPattern(n) => ((n \in ResultNames) <=> options.include_patterns)
    /\ (~IsPrivate(n) /\ ~IsPattern(n)) => n \in ResultNames

\* the declarations of a name, and the first of them
DeclsOf(n) == {i \in DeclLines : DeclName(i) = n}

FirstDecl(n) == Min(DeclsOf(n))

TargetsNamed(n) == {k \in 1..Len(Result) : Result[k].name = n}

\* C5: for every name declared more than once, the result holds at most one
\* target of that name; when the name passes the private/pattern filters it holds
\* exactly one, and its line, description and required variables are those of the
\* first declaration of the name
C5_FirstDeclarationWins ==
  Parsed => \A n \in DeclaredNames :
    Cardinality(DeclsOf(n)) > 1 =>
      /\ Cardinality(TargetsNamed(n)) <= 1
      /\ PassesFilters(n) =>
           /\ Cardinality(TargetsNamed(n)) = 1
           /\ \A k \in TargetsNamed(n) :
                /\ Result[k].line = FirstDecl(n)
                /\ Result[k].description = extract_description(Lines, FirstDecl(n))
                /\ Result[k].required_vars = extract_required_vars(Lines, FirstDecl(n), 0)

\* C5 witness: a name declared twice, with different descriptions at the two
\* declarations, has been emitted
C5_Witness ==
  /\ Parsed
  /\ \E n \in ResultNames : \E i, j \in DeclsOf(n) :
       /\ i < j
       /\ extract_description(Lines, i) # extract_description(Lines, j)

\* C6: no line that is_variable_assignment or is_target_specific_variable accepts
\* is the declaration line of an emitted target, also when target_regex matches it
C6_AssignmentsNeverTargets ==
  Parsed => \A k \in 1..Len(Result) :
    LET tr == trim(Lines[Result[k].line])
    IN ~is_variable_assignment(tr) /\ ~is_target_specific_variable(tr)

\* C6 witness: the parsed file holds a plain assignment and a target-scoped
\* assignment that both match the declaration pattern, and a target was emitted
C6_Witness ==
  /\ Parsed
  /\ Len(Result) > 0
  /\ \E i, j \in 1..Len(Lines) :
       /\ is_variable_assignment(trim(Lines[i]))
       /\ target_regex(trim(Lines[i])) # None
       /\ ~is_variable_assignment(trim(Lines[j]))
       /\ is_target_specific_variable(trim(Lines[j]))
       /\ target_regex(trim(Lines[j])) # None

\* the text after the first "##" of a line, trimmed
MarkerPos(line) == find(line, <<"#", "#">>)

MarkerText(line) == trim(From(line, MarkerPos(line) + 2))

\* the description the preceding comment lines give
WalkDescription(i) ==
  LET comments == preceding_comments(Lines, i)
  IN IF comments = <<>> THEN None ELSE Some(join(reverse(comments), <<" ">>))

\* C7 (as amended): when the declaration line of a target contains "##" and the
\* text after the first "##" is not blank, the description is that text, trimmed,
\* and the preceding comment lines do not contribute; when only whitespace
\* follows the marker, the description is the one the preceding comment lines
\* give, as if the line had no marker
C7_InlineMarker ==
  Parsed => \A k \in 1..Len(Result) :
    LET i == Result[k].line
    IN MarkerPos(Lines[i]) # 0 =>
         IF MarkerText(Lines[i]) # <<>>
         THEN Result[k].description = Some(MarkerText(Lines[i]))
         ELSE Result[k].description = WalkDescription(i)

\* C7 witness: an emitted target whose line has "##" with text after it and
\* stands directly below a comment line
C7_Witness ==
  /\ Parsed
  /\ \E k \in 1..Len(Result) :
       /\ MarkerPos(Lines[Result[k].line]) # 0
       /\ MarkerText(Lines[Result[k].line]) # <<>>
       /\ WalkDescription(Result[k].line) # None

\* C7 as stated: whenever the declaration line contains "##", the description is
\* the trimmed text after the marker (absent when that text is empty) and the
\* preceding comment lines do not contribute
C7_AsStated ==
  Parsed => \A k \in 1..Len(Result) :
    LET i == Result[k].line
    IN MarkerPos(Lines[i]) # 0 =>
         Result[k].description =
           (IF MarkerText(Lines[i]) # <<>> THEN Some(MarkerText(Lines[i])) ELSE None)

\* the names hinted in the comment text of the declaration at line i
HintedNames(i) ==
  LET caps == hint_captures(comment_text(Lines, i), 1)
  IN {caps[k].name : k \in 1..Len(caps)}

\* the recipe of the declaration at line i: the lines after it, up to the first
\* line that is not empty and starts with neither a tab nor a space
RecipeEnd(i) ==
  Min({j \in (i + 1)..Len(Lines) :
         /\ Lines[j] # <<>>
         /\ ~starts_with(Lines[j], <<"\t">>)
         /\ ~starts_with(Lines[j], <<" ">>)} \cup {Len(Lines) + 1})

\* the names referenced as $(NAME) or ${NAME} in that recipe
ReferencedNames(i) ==
  UNION {LET caps == recipe_captures(Lines[j], 1)
         IN {caps[k] : k \in 1..Len(caps)} : j \in (i + 1)..(RecipeEnd(i) - 1)}

VarsNamed(t, n) == {k \in 1..Len(t.required_vars) : t.required_vars[k].name = n}

\* C8 (as amended): a variable hinted in the target's comment text and referenced
\* in its recipe appears once and keeps a hint; a variable referenced only in the
\* recipe appears once with no hint unless it is a Make built-in, and a built-in
\* referenced only in the recipe does not appear; a hinted variable never
\* appears without a hint
C8_RequiredVarMerge ==
  Parsed => \A k \in 1..Len(Result) :
    LET t == Result[k]
    IN /\ \A n \in HintedNames(t.line) :
            /\ Cardinality(VarsNamed(t, n)) = 1
            /\ \A v \in VarsNamed(t, n) : t.required_vars[v].hint # None
       /\ \A n \in ReferencedNames(t.line) \ HintedNames(t.line) :
            IF n \in builtin_vars
            THEN VarsNamed(t, n) = {}
            ELSE /\ Cardinality(VarsNamed(t, n)) = 1
                 /\ \A v \in VarsNamed(t, n) : t.required_vars[v].hint = None

\* C8 witness: a target with a variable that is hinted and referenced, and
\* another that is only referenced
C8_Witness ==
  /\ Parsed
  /\ \E k \in 1..Len(Result) :
       /\ HintedNames(Result[k].line) \cap ReferencedNames(Result[k].line) # {}
       /\ ReferencedNames(Result[k].line) \ HintedNames(Result[k].line) # {}
       /\ Len(Result[k].required_vars) = 2

\* C8 as stated: a hinted and referenced variable appears once with its hint, and
\* every variable referenced only in the recipe appears with no hint
C8_AsStated ==
  Parsed => \A k \in 1..Len(Result) :
    LET t == Result[k]
    IN /\ \A n \in HintedNames(t.line) \cap ReferencedNames(t.line) :
            /\ Cardinality(VarsNamed(t, n)) = 1
            /\ \A v \in VarsNamed(t, n) : t.required_vars[v].hint # None
       /\ \A n \in ReferencedNames(t.line) \ HintedNames(t.line) :
            /\ Cardinality(VarsNamed(t, n)) = 1
            /\ \A v \in VarsNamed(t, n) : t.required_vars[v].hint = None

\* C9: a second parse of the same content with the same options returns the list
\* the first parse returned, whatever order the HashMaps of the two calls iterate
\* in, and the targets of one file are in strictly increasing line order
C9_Deterministic ==
  /\ targets2 # None => targets2 = targets
  /\ Parsed => \A k \in 1..(Len(Result) - 1) : Result[k].line < Result[k + 1].line

\* C9 witness: both parses are done, the result holds two targets, and one of them
\* has two required variables
C9_Witness ==
  /\ targets2 # None
  /\ Len(Result) >= 2
  /\ \E k \in 1..Len(Result) : Len(Result[k].required_vars) >= 2

\* an uppercase-led identifier, [A-Z][A-Z0-9_]*
IsVarName(name) ==
  /\ name # <<>>
  /\ name[1] \in Upper
  /\ \A i \in 1..Len(name) : name[i] \in Upper \cup Digit \cup {"_"}

\* C19: in every target of a result, the names of required_vars are strictly
\* ascending (so no name occurs twice) and each is an uppercase-led
\* identifier [A-Z][A-Z0-9_]*
C19_RequiredVarsWellFormed ==
  Parsed =>
    \A k \in 1..Len(Result) :
      LET rv == Result[k].required_vars
      IN /\ \A i \in 1..(Len(rv) - 1) : str_lt(rv[i].name, rv[i + 1].name)
         /\ \A i \in 1..Len(rv) : IsVarName(rv[i].name)

\* C19 witness: a target with three required variables, the last two V and
\* V_1, whose recipe also refers to the lowercase $(v)
C19_Witness ==
  /\ Parsed
  /\ \E k \in 1..Len(Result) :
       /\ Len(Result[k].required_vars) = 3
       /\ Result[k].required_vars[2].name = <<"V">>
       /\ Result[k].required_vars[3].name = <<"V", "_", "1">>

\* C20: every emitted target's line is the 1-indexed number of a line whose
\* trimmed text is the target's name, optional whitespace and a colon, and
\* that is not blank, not a comment and not an assignment line
C20_LineOfDeclaration ==
  Parsed =>
    \A k \in 1..Len(Result) :
      /\ Result[k].line \in 1..Len(Lines)
      /\ LET tr == trim(Lines[Result[k].line])
             after_name == From(tr, Len(Result[k].name) + 1)
         IN /\ tr # <<>>
            /\ tr[1] # "#"
            /\ ~is_variable_assignment(tr)
            /\ ~is_target_specific_variable(tr)
            /\ starts_with(tr, Result[k].name)
            /\ starts_with(trim_start(after_name), <<":">>)

\* C20 witness: a target declared on the third line, after a comment and a
\* declaration, on a line with a space before the name and before the colon
C20_Witness ==
  /\ Parsed
  /\ Len(Result) = 2
  /\ Result[2].line = 3
  /\ Lines[3] = <<" ", "t", " ", ":">>
  /\ Lines[1] = <<"#", " ", "c">>

\* line j is a comment line, a blank line
IsComment(j) == starts_with(trim(Lines[j]), <<"#">>)

IsBlank(j) == trim(Lines[j]) = <<>>

\* the text of comment line j without its leading "#"s, trimmed
Fragment(j) == trim(trim_start_matches(trim(Lines[j]), "#"))

\* the non-empty fragments of the comment lines among lines from..to that
\* are in the set, top line first
RECURSIVE FragmentsOf(_, _, _)
FragmentsOf(from, to, chosen) ==
  IF from > to THEN <<>>
  ELSE (IF from \in chosen /\ Fragment(from) # <<>> THEN <<Fragment(from)>> ELSE <<>>)
       \o FragmentsOf(from + 1, to, chosen)

DescriptionOf(fragments) ==
  IF fragments = <<>> THEN None ELSE Some(join(fragments, <<" ">>))

\* the declaration at line i has no text after an inline "##"
NoInlineText(i) == MarkerPos(Lines[i]) = 0 \/ MarkerText(Lines[i]) = <<>>

\* the comment block of the declaration at line i when at most one blank line
\* is tolerated, directly above the declaration and below a comment line: the
\* unbroken run of comment lines that ends at the line above the declaration,
\* or above that single blank line
StatedBlock(i) ==
  LET bottom == IF i >= 3 /\ IsBlank(i - 1) /\ IsComment(i - 2) THEN i - 2 ELSE i - 1
  IN {j \in 1..bottom : \A m \in j..bottom : IsComment(m)}

\* C24: the upward walk tolerates at most one blank line, directly between the
\* declaration and its comment block, and stops at the first other line that
\* is not a comment, so the description comes from that block alone
C24_AsStated ==
  Parsed => \A k \in 1..Len(Result) :
    LET i == Result[k].line
    IN NoInlineText(i) =>
         Result[k].description = DescriptionOf(FragmentsOf(1, i - 1, StatedBlock(i)))

\* the comment lines the walk from line i reaches: every line between is a
\* comment line, or a blank line directly below a comment line
WalkedLines(i) ==
  {j \in 1..(i - 1) :
     /\ IsComment(j)
     /\ \A m \in (j + 1)..(i - 1) : IsComment(m) \/ (IsBlank(m) /\ IsComment(m - 1))}

\* C25: without inline "##" text, the description is the collected comment
\* fragments, top line first, joined by one space, and absent when no
\* non-empty fragment was collected
C25_JoinedInSourceOrder ==
  Parsed => \A k \in 1..Len(Result) :
    LET i == Result[k].line
    IN NoInlineText(i) =>
         Result[k].description = DescriptionOf(FragmentsOf(1, i - 1, WalkedLines(i)))

\* C25 witness: a target below the comment lines "# c" and "# d" has the
\* description "c d"
C25_Witness ==
  /\ Parsed
  /\ \E k \in 1..Len(Result) :
       /\ Result[k].line = 3
       /\ Lines[1] = <<"#", " ", "c">>
       /\ Lines[2] = <<"#", " ", "d">>
       /\ Result[k].description = Some(<<"c", " ", "d">>)

\* the names of the required variables of a target
VarNames(t) == {t.required_vars[k].name : k \in 1..Len(t.required_vars)}

\* the names referenced as $(NAME) or ${NAME} on line j
ReferencedOn(j) ==
  LET caps == recipe_captures(Lines[j], 1)
  IN {caps[k] : k \in 1..Len(caps)}

\* C26 (as amended): the required variables of a target are the names hinted
\* in its comment text and the names, built-ins aside, referenced on the lines
\* after its declaration and before the first following line that is
\* non-empty and starts with neither a tab nor a space; a reference on the
\* declaration line or at or below that line adds nothing
C26_RecipeScanExtent ==
  Parsed => \A k \in 1..Len(Result) :
    LET t == Result[k]
    IN VarNames(t) = HintedNames(t.line) \cup (ReferencedNames(t.line) \ builtin_vars)

\* C26 witness: a target with a reference on its declaration line and none in
\* its recipe, followed by an unindented declaration whose recipe refers to
\* two variables: the first target has no required variable, the second two
C26_Witness ==
  /\ Parsed
  /\ Len(Result) = 2
  /\ ReferencedOn(Result[1].line) # {}
  /\ Result[1].required_vars = <<>>
  /\ Result[2].line = 2
  /\ Len(Result[2].required_vars) = 2

\* the line of the first declaration after line i, or the line after the last
NextDeclaration(i) == Min({d \in DeclLines : d > i} \cup {Len(Lines) + 1})

\* C26 as stated: a name that is not hinted is among a target's required
\* variables only when it is referenced after the declaration line and before
\* the next declaration, never because of a later target's recipe
C26_AsStated ==
  Parsed => \A k \in 1..Len(Result) :
    LET t == Result[k]
    IN \A n \in VarNames(t) \ HintedNames(t.line) :
         \E j \in (t.line + 1)..(NextDeclaration(t.line) - 1) : n \in ReferencedOn(j)

\* the built-ins the recipe regex can capture, as the list of names to skip
NamedBuiltins ==
  { <<"C","C">>, <<"C","X","X">>, <<"C","F","L","A","G","S">>,
    <<"L","D","F","L","A","G","S">>, <<"M","A","K","E">>, <<"S","H","E","L","L">> }

\* C27: a Make built-in (CC, CXX, CFLAGS, LDFLAGS, MAKE, SHELL) is among a
\* target's required variables only when the target's comment text has a
\* NAME=value hint for it, and then with that hint; a recipe reference alone
\* never adds it
C27_BuiltinsOnlyHinted ==
  Parsed => \A k \in 1..Len(Result) :
    LET t == Result[k]
    IN \A v \in 1..Len(t.required_vars) :
         t.required_vars[v].name \in NamedBuiltins
         => /\ t.required_vars[v].name \in HintedNames(t.line)
            /\ t.required_vars[v].hint # None

\* C27 witness: a target whose recipe refers to $(CC) and to other
\* variables, with no hint for CC: the others are required, CC is not
C27_Witness ==
  /\ Parsed
  /\ \E k \in 1..Len(Result) :
       /\ <<"C","C">> \in ReferencedNames(Result[k].line)
       /\ <<"C","C">> \notin HintedNames(Result[k].line)
       /\ <<"C","C">> \notin VarNames(Result[k])
       /\ Len(Result[k].required_vars) = 2

(***************************************************************************)
(* File system (std::fs, std::path)                                        *)
(***************************************************************************)
\* A path is the sequence of its components.  The process runs in directory /w;
\* a relative path, with or without a leading ".", names a file below /w.
WorkDir == "/w"

\* the Makefiles of /w, by canonical path
CanonFiles == { <<WorkDir, "Makefile">>, <<WorkDir, "makefile">> }

\* the absolute path a path resolves to
resolve(path) ==
  IF path[1] = WorkDir THEN path
  ELSE IF path[1] = "." THEN <<WorkDir>> \o Tail(path)
  ELSE IF Len(path) = 1 THEN <<WorkDir>> \o path
  ELSE path

AbsentFile == [kind |-> "absent", text |-> <<>>, mtime |-> 0]

\* the file a path names: absent, unreadable (exists, but cannot be read as
\* text), or text
file_at(files, path) ==
  IF resolve(path) \in DOMAIN files THEN files[resolve(path)] ELSE AbsentFile

\* Path::exists
exists(files, path) == file_at(files, path).kind # "absent"

Ok(v) == <<"Ok", v>>

Err == <<"Err">>

IsOk(r) == r[1] = "Ok"

\* Path::canonicalize
canonicalize(files, path) ==
  IF exists(files, path) THEN Ok(resolve(path)) ELSE Err

\* fs::read_to_string
read_to_string(files, path) ==
  IF file_at(files, path).kind = "text" THEN Ok(file_at(files, path).text) ELSE Err

(***************************************************************************)
(* Cache store (cache.rs)                                                  *)
(***************************************************************************)
CURRENT_VERSION == 1

\* Cache::new
Cache_new == [version |-> CURRENT_VERSION, entries |-> <<>>]

\* compute_hash: SHA-256 of the text, taken to be free of collisions
compute_hash(text) == <<"sha256", text>>

\* a faulty validity check: the stored modified_time is compared too
is_entry_valid_mtime(files, makefile_path, entry) ==
  LET text == read_to_string(files, makefile_path)
  IN /\ IsOk(text)
     /\ compute_hash(text[2]) = entry.content_hash
     /\ file_at(files, makefile_path).mtime = entry.modified_time

\* Cache::is_entry_valid
is_entry_valid(files, makefile_path, entry) ==
  LET text == read_to_string(files, makefile_path)
  IN IsOk(text) /\ compute_hash(text[2]) = entry.content_hash

\* Cache::get: Option<Vec<Target>>
get(c, files, makefile_path) ==
  LET abs_path == canonicalize(files, makefile_path)
  IN IF ~IsOk(abs_path) THEN None
     ELSE IF abs_path[2] \notin DOMAIN c.entries THEN None
     ELSE IF is_entry_valid(files, makefile_path, c.entries[abs_path[2]])
     THEN Some(c.entries[abs_path[2]].targets)
     ELSE None

\* a faulty set: the entry is stored under the path as given
set_raw_key(c, files, makefile_path, new_targets) ==
  LET abs_path == canonicalize(files, makefile_path)
      text == read_to_string(files, makefile_path)
      entry == [content_hash |-> compute_hash(text[2]),
                modified_time |-> file_at(files, makefile_path).mtime,
                targets |-> new_targets]
  IN IF ~IsOk(abs_path) \/ ~IsOk(text) THEN Err
     ELSE Ok([c EXCEPT !.entries = map_insert(c.entries, makefile_path, entry)])

\* a faulty set: an entry that exists is kept
set_keep_existing(c, files, makefile_path, new_targets) ==
  LET abs_path == canonicalize(files, makefile_path)
      text == read_to_string(files, makefile_path)
      entry == [content_hash |-> compute_hash(text[2]),
                modified_time |-> file_at(files, makefile_path).mtime,
                targets |-> new_targets]
  IN IF ~IsOk(abs_path) \/ ~IsOk(text) THEN Err
     ELSE IF abs_path[2] \in DOMAIN c.entries THEN Ok(c)
     ELSE Ok([c EXCEPT !.entries = map_insert(c.entries, abs_path[2], entry)])

\* Cache::set: Result<Cache>, the cache after the call.  A file that exists has
\* metadata, so modified_time is the file's mtime.
set(c, files, makefile_path, new_targets) ==
  LET abs_path == canonicalize(files, makefile_path)
      text == read_to_string(files, makefile_path)
      entry == [content_hash |-> compute_hash(text[2]),
                modified_time |-> file_at(files, makefile_path).mtime,
                targets |-> new_targets]
  IN IF ~IsOk(abs_path) \/ ~IsOk(text) THEN Err
     ELSE Ok([c EXCEPT !.entries = map_insert(c.entries, abs_path[2], entry)])

\* the map without the keys outside keep
map_retain(m, keep) == [k \in DOMAIN m \cap keep |-> m[k]]

\* Cache::invalidate: nothing is removed when the path cannot be canonicalized
invalidate(c, files, makefile_path) ==
  IF IsOk(canonicalize(files, makefile_path))
  THEN [c EXCEPT !.entries =
          map_retain(@, DOMAIN @ \ {canonicalize(files, makefile_path)[2]})]
  ELSE c

\* Cache::clear
clear(c) == [c EXCEPT !.entries = <<>>]

\* a faulty prune: the entries of files that exist are dropped
prune_existing(c, files) ==
  [c EXCEPT !.entries = map_retain(@, {k \in DOMAIN @ : ~exists(files, k)})]

\* Cache::prune: an entry is retained when its key path exists
prune(c, files) ==
  [c EXCEPT !.entries = map_retain(@, {k \in DOMAIN @ : exists(files, k)})]

(***************************************************************************)
(* SpecCache: the cache API called in any order while files change         *)
(***************************************************************************)
\* the number of API calls and file changes in one behaviour
MaxOps == 4

\* the latest modification time
MaxTime == 1

\* the texts a Makefile holds
TextA == file_text(<< <<"b",":">>, <<"_","p",":">> >>)

TextB == file_text(<< <<"%",":">>, <<"b",":">> >>)

FileTexts == {TextA, TextB}

\* the spellings the API is called with: two of one file, one of the other
ApiPaths == { <<"Makefile">>, <<".", "Makefile">>, <<WorkDir, "makefile">> }

\* the target lists handed to set
ApiTargetLists ==
  { <<>>,
    parse_makefile_content(TextA, <<"Makefile">>, DefaultOptions, 0),
    parse_makefile_content(TextB, <<WorkDir, "makefile">>, DefaultOptions, 0) }

FileStates ==
  {AbsentFile}
  \cup [kind : {"unreadable"}, text : {<<>>}, mtime : 0..MaxTime]
  \cup [kind : {"text"}, text : FileTexts, mtime : 0..MaxTime]

IdleParseVars ==
  content = <<>> /\ options = DefaultOptions /\ targets = None /\ targets2 = None

InitCache ==
  /\ IdleParseVars
  /\ fs \in [CanonFiles -> {f \in FileStates : f.mtime = 0}]
  /\ cache = Cache_new
  /\ disk = <<>>
  /\ last = <<>>
  /\ run = <<>>
  /\ used = 0

\* the calls remembered, newest first
MaxHistory == 3

record(call) == SubSeq(<<call>> \o last, 1, Min({Len(last) + 1, MaxHistory}))

\* cache.set(path, targets)
CacheSet ==
  /\ used < MaxOps
  /\ \E path \in ApiPaths, ts \in ApiTargetLists :
       LET r == set(cache, fs, path, ts)
       IN /\ cache' = IF IsOk(r) THEN r[2] ELSE cache
          /\ last' = record([op |-> "set", path |-> path, targets |-> ts, ok |-> IsOk(r),
                             before |-> cache])
  /\ used' = used + 1
  /\ UNCHANGED <<fs, disk, run>>
  /\ UNCHANGED parseVars

\* cache.get(path)
CacheGet ==
  /\ used < MaxOps
  /\ \E path \in ApiPaths :
       last' = record([op |-> "get", path |-> path, result |-> get(cache, fs, path)])
  /\ used' = used + 1
  /\ UNCHANGED <<fs, cache, disk, run>>
  /\ UNCHANGED parseVars

\* another program writes, touches, deletes or locks a Makefile
ChangeFile ==
  /\ used < MaxOps
  /\ \E f \in CanonFiles, st \in FileStates :
       /\ st # fs[f]
       /\ fs' = [fs EXCEPT ![f] = st]
       /\ last' = record([op |-> "fs", file |-> f,
                          same_content |-> st.kind = "text" /\ fs[f].kind = "text"
                                           /\ st.text = fs[f].text])
  /\ used' = used + 1
  /\ UNCHANGED <<cache, disk, run>>
  /\ UNCHANGED parseVars

\* cache.invalidate(path)
CacheInvalidate ==
  /\ used < MaxOps
  /\ \E path \in ApiPaths :
       /\ cache' = invalidate(cache, fs, path)
       /\ last' = record([op |-> "invalidate", path |-> path, before |-> cache])
  /\ used' = used + 1
  /\ UNCHANGED <<fs, disk, run>>
  /\ UNCHANGED parseVars

\* cache.clear()
CacheClear ==
  /\ used < MaxOps
  /\ cache' = clear(cache)
  /\ last' = record([op |-> "clear", before |-> cache])
  /\ used' = used + 1
  /\ UNCHANGED <<fs, disk, run>>
  /\ UNCHANGED parseVars

\* cache.prune()
CachePrune ==
  /\ used < MaxOps
  /\ cache' = prune(cache, fs)
  /\ last' = record([op |-> "prune", before |-> cache])
  /\ used' = used + 1
  /\ UNCHANGED <<fs, disk, run>>
  /\ UNCHANGED parseVars

NextCache ==
  CacheSet \/ CacheGet \/ ChangeFile \/ CacheInvalidate \/ CacheClear \/ CachePrune

SpecCache == InitCache /\ [][NextCache]_vars

(***************************************************************************)
(* Properties of the cache API, checked under SpecCache                    *)
(***************************************************************************)
\* last[1] is a get(path) and last[k] the successful set(path, T) before it
GetAfterSet(k) ==
  /\ Len(last) >= k
  /\ last[1].op = "get"
  /\ last[k].op = "set"
  /\ last[k].ok
  /\ last[1].path = last[k].path

\* last[2] is a file change that leaves the content of path's file as it was
ContentKept(path) ==
  /\ Len(last) >= 2
  /\ last[2].op = "fs"
  /\ last[2].file = resolve(path) => last[2].same_content

\* C2: after a successful set(path, T), a get(path) returns exactly T, when it
\* follows directly or after a change that leaves the file's content as it was
\* (a touch, or a change to another file)
C2_SetThenGet ==
  /\ GetAfterSet(2) => last[1].result = Some(last[2].targets)
  /\ (GetAfterSet(3) /\ ContentKept(last[1].path)) => last[1].result = Some(last[3].targets)

\* C2 witness: such a get, of a list of one target, on a relative path, after
\* the file was touched
C2_Witness ==
  /\ GetAfterSet(3)
  /\ ContentKept(last[1].path)
  /\ last[2].file = resolve(last[1].path)
  /\ last[1].path = <<"Makefile">>
  /\ Len(last[3].targets) = 1

\* what get(path) is to return in the current state: the targets of the entry
\* under the canonical path when the file's current text hashes to the stored
\* hash, and a miss otherwise
ExpectedGet(path) ==
  LET key == resolve(path)
  IN IF /\ exists(fs, path)
        /\ key \in DOMAIN cache.entries
        /\ file_at(fs, path).kind = "text"
        /\ compute_hash(file_at(fs, path).text) = cache.entries[key].content_hash
     THEN Some(cache.entries[key].targets)
     ELSE None

\* C3: after any sequence of set, get and file changes, get(path) returns the
\* cached targets exactly when an entry exists under the canonical path and the
\* hash of the file's current text equals the stored content_hash; the stored
\* modified_time plays no part, and a path that cannot be canonicalized or read
\* is a miss
C3_GetIffHashMatches ==
  (Len(last) >= 1 /\ last[1].op = "get") => last[1].result = ExpectedGet(last[1].path)

\* C3 witness: a get hits although the file's mtime differs from the stored one
C3_Witness ==
  /\ Len(last) >= 1
  /\ last[1].op = "get"
  /\ last[1].result # None
  /\ cache.entries[resolve(last[1].path)].modified_time # file_at(fs, last[1].path).mtime

(***************************************************************************)
(* Cache file (cache.rs, load and save)                                    *)
(***************************************************************************)
\* The cache file is missing, unreadable, not parseable as a Cache ("corrupt"),
\* or the JSON of a Cache.
MissingFile == [kind |-> "missing"]

UnreadableFile == [kind |-> "unreadable"]

CorruptFile == [kind |-> "corrupt"]

\* serde_json::to_string_pretty(self): both fields are written
to_string_pretty(c) == [kind |-> "json", version |-> c.version, entries |-> c.entries]

\* serde_json::from_str: Result<Cache>
from_str(file) ==
  IF file.kind = "json"
  THEN Ok([version |-> file.version, entries |-> file.entries])
  ELSE Err

\* a faulty load: a cache of another version is returned as it is
load_any_version(file) ==
  IF file.kind = "missing" THEN Ok(Cache_new)
  ELSE IF file.kind = "unreadable" THEN Err
  ELSE from_str(file)

\* Cache::load: Result<Cache>
load(file) ==
  IF file.kind = "missing" THEN Ok(Cache_new)
  ELSE IF file.kind = "unreadable" THEN Err
  ELSE IF ~IsOk(from_str(file)) THEN Err
  ELSE IF from_str(file)[2].version # CURRENT_VERSION THEN Ok(Cache_new)
  ELSE from_str(file)

\* `Cache::load().unwrap_or_else(|_| Cache::new())`
load_or_new(file) == IF IsOk(load(file)) THEN load(file)[2] ELSE Cache_new

\* Cache::save: the cache file after the call.  fs::write truncates and then
\* writes, so a failed save leaves the old file or a partial, unparseable one.
save_outcomes(c, file) == {to_string_pretty(c), file, CorruptFile}

(***************************************************************************)
(* Discovery and the run (makefile.rs find_makefiles, main.rs)             *)
(***************************************************************************)
\* dir.join(name)
path_join(dir, name) == dir \o <<name>>

RECURSIVE select_existing(_, _)
select_existing(files, paths) ==
  IF paths = <<>> THEN <<>>
  ELSE IF exists(files, paths[1]) THEN <<paths[1]>> \o select_existing(files, Tail(paths))
  ELSE select_existing(files, Tail(paths))

\* find_makefiles, not recursive: the three names in this order
find_makefiles(files, dir) ==
  select_existing(files, << path_join(dir, "Makefile"), path_join(dir, "makefile"),
                            path_join(dir, "GNUmakefile") >>)

\* a faulty parse_makefile: a file that cannot be read is an empty Makefile
parse_makefile_lenient(files, path, opts, random_state) ==
  IF IsOk(read_to_string(files, path))
  THEN Ok(parse_makefile_content(read_to_string(files, path)[2], path, opts, random_state))
  ELSE Ok(<<>>)

\* parse_makefile: Result<Vec<Target>>
parse_makefile(files, path, opts, random_state) ==
  IF IsOk(read_to_string(files, path))
  THEN Ok(parse_makefile_content(read_to_string(files, path)[2], path, opts, random_state))
  ELSE Err

\* the `for target in targets` loop of get_targets: a name already seen is dropped
RECURSIVE merge_targets(_, _)
merge_targets(all_targets, new_targets) ==
  IF new_targets = <<>> THEN all_targets
  ELSE IF \E k \in 1..Len(all_targets) : all_targets[k].name = new_targets[1].name
  THEN merge_targets(all_targets, Tail(new_targets))
  ELSE merge_targets(Append(all_targets, new_targets[1]), Tail(new_targets))

\* Cli::working_dir: --cwd, or the current directory
working_dir(cli) == IF cli.cwd = None THEN <<WorkDir>> ELSE cli.cwd[1]

\* a directory exists when it is the current directory under one of its names
dir_exists(dir) == dir \in { <<WorkDir>>, <<".">> }

\* `all_targets.sort_by(|a, b| a.name.cmp(&b.name))` of get_targets
sort_targets(all_targets) == sort_from(<<>>, all_targets)

\* a faulty `?`: the error is dropped and the run goes on to its end
on_error_continue(r) == [r EXCEPT !.pc = "finish", !.errors = @ + 1]

\* the `?` after parse_makefile and cache.set: the error is returned at once
on_error(r) == [r EXCEPT !.pc = "failed", !.result = Some(Err), !.errors = @ + 1]

\* a faulty condition: the cache is saved at the end of every run
should_save_unconditional(r) == TRUE

\* a faulty condition: the cache is saved whenever caching is enabled
should_save_always(r) == ~r.cli.no_cache

\* whether the end of the run calls cache.save(): always at the end of
\* get_targets_for_file, and `if cache_modified && !cli.no_cache` in get_targets
should_save(r) == r.cli.file # None \/ (r.cache_modified /\ ~r.cli.no_cache)

\* a faulty end of the run: a failed save fails the run (`cache.save()?`)
finish_result_save_fatal(r, save_ok) ==
  IF ~save_ok THEN Some(Err)
  ELSE Some(Ok(IF r.cli.file # None THEN r.all_targets ELSE sort_targets(r.all_targets)))

\* what get_targets_for_file and get_targets return after `let _ = cache.save()`:
\* the file's list as it is, or the merged list sorted by name
finish_result(r, save_ok) ==
  Some(Ok(IF r.cli.file # None THEN r.all_targets ELSE sort_targets(r.all_targets)))

\* main: the process exits with status 1 when run() returns an error
exit_status(result) == IF IsOk(result) THEN 0 ELSE 1

(***************************************************************************)
(* SpecRun: invocations of the program, one after another, while another   *)
(* program edits the Makefiles                                             *)
(***************************************************************************)
\* the number of invocations in one behaviour
MaxRuns == 2

\* the number of edits by other programs in one behaviour
MaxEdits == 1

\* the command lines: --cwd, -f, --no-cache, --all and --patterns
RunClis ==
  [cwd : {None, Some(<<"/nowhere">>)},
   file : {None, Some(<<"Makefile">>), Some(<<".", "Makefile">>)},
   no_cache : BOOLEAN,
   opts : ParseOptions]

RunFileStates == {f \in FileStates : f.mtime = 0}

\* a cache file written by a release with another format version
OldVersionFile ==
  [kind |-> "json", version |-> 0,
   entries |-> map_insert(<<>>, <<WorkDir, "Makefile">>,
                 [content_hash |-> compute_hash(TextA), modified_time |-> 0,
                  targets |-> parse_makefile_content(TextA, <<"Makefile">>, DefaultOptions, 0)])]

\* no invocation yet
IdleRun ==
  [pc |-> "idle", cli |-> [cwd |-> None, file |-> None, no_cache |-> FALSE,
                           opts |-> DefaultOptions],
   makefiles |-> <<>>, idx |-> 1, cache_modified |-> FALSE, parsed |-> <<>>,
   all_targets |-> <<>>, result |-> None, load_result |-> None, disturbed |-> FALSE,
   reads |-> 0, sets |-> 0, writes |-> 0, save_ok |-> TRUE,
   parses |-> 0, errors |-> 0, disk0 |-> MissingFile]

InitRun ==
  /\ IdleParseVars
  /\ fs \in [CanonFiles -> RunFileStates]
  /\ disk \in {MissingFile, UnreadableFile, CorruptFile, OldVersionFile}
  /\ cache = Cache_new
  /\ last = <<>>
  /\ run = IdleRun
  /\ used = [runs |-> 0, edits |-> 0]

\* the invocation is between its first and its last step
Running == run.pc \in {"load", "get", "parse", "set", "finish"}

\* the loop of get_targets moves to the next Makefile, or ends
advance(r) ==
  IF r.idx < Len(r.makefiles)
  THEN [r EXCEPT !.idx = @ + 1, !.pc = IF r.cli.no_cache THEN "parse" ELSE "get"]
  ELSE [r EXCEPT !.pc = "finish"]

\* run() up to the loading of the cache: the working directory must exist, a
\* file given with -f must exist, a directory must hold a Makefile
RunStart ==
  /\ ~Running
  /\ used.runs < MaxRuns
  /\ \E cli \in RunClis :
       LET dir == working_dir(cli)
           found == IF cli.file # None THEN <<cli.file[1]>> ELSE find_makefiles(fs, dir)
           fatal == \/ ~dir_exists(dir)
                    \/ cli.file # None /\ ~exists(fs, cli.file[1])
                    \/ found = <<>>
       IN run' = IF fatal
                 THEN [IdleRun EXCEPT !.pc = "failed", !.cli = cli, !.result = Some(Err),
                                      !.disk0 = disk]
                 ELSE [IdleRun EXCEPT !.pc = IF cli.no_cache THEN "parse" ELSE "load",
                                      !.cli = cli, !.makefiles = found, !.disk0 = disk]
  /\ cache' = Cache_new
  /\ used' = [used EXCEPT !.runs = @ + 1]
  /\ UNCHANGED <<fs, disk, last>>
  /\ UNCHANGED parseVars

\* `Cache::load().unwrap_or_else(|_| Cache::new())`
RunLoad ==
  /\ run.pc = "load"
  /\ cache' = load_or_new(disk)
  /\ run' = [run EXCEPT !.pc = "get", !.load_result = Some(load(disk)), !.reads = @ + 1]
  /\ UNCHANGED <<fs, disk, last, used>>
  /\ UNCHANGED parseVars

\* cache.get(makefile_path): a hit is used as it is
RunGet ==
  /\ run.pc = "get"
  /\ LET hit == get(cache, fs, run.makefiles[run.idx])
     IN run' = IF hit = None THEN [run EXCEPT !.pc = "parse"]
               ELSE IF run.cli.file # None
               THEN [run EXCEPT !.pc = "done", !.result = Some(Ok(hit[1]))]
               ELSE advance([run EXCEPT !.all_targets = merge_targets(@, hit[1])])
  /\ UNCHANGED <<fs, cache, disk, last, used>>
  /\ UNCHANGED parseVars

\* makefile::parse_makefile(makefile_path, parse_options)?
RunParse ==
  /\ run.pc = "parse"
  /\ \E random_state \in RandomStates :
       LET parsed == parse_makefile(fs, run.makefiles[run.idx], run.cli.opts, random_state)
       IN run' = IF ~IsOk(parsed)
                 THEN on_error(run)
                 ELSE IF ~run.cli.no_cache
                 THEN [run EXCEPT !.pc = "set", !.parsed = parsed[2], !.parses = @ + 1]
                 ELSE IF run.cli.file # None
                 THEN [run EXCEPT !.pc = "done", !.result = Some(Ok(parsed[2])),
                                  !.parses = @ + 1]
                 ELSE advance([run EXCEPT !.all_targets = merge_targets(@, parsed[2]),
                                          !.parses = @ + 1])
  /\ UNCHANGED <<fs, cache, disk, last, used>>
  /\ UNCHANGED parseVars

\* cache.set(makefile_path, parsed.clone())?
RunSet ==
  /\ run.pc = "set"
  /\ LET stored == set(cache, fs, run.makefiles[run.idx], run.parsed)
     IN /\ cache' = IF IsOk(stored) THEN stored[2] ELSE cache
        /\ run' = IF ~IsOk(stored)
                  THEN on_error(run)
                  ELSE IF run.cli.file # None
                  THEN [run EXCEPT !.pc = "finish", !.all_targets = run.parsed, !.sets = @ + 1]
                  ELSE advance([run EXCEPT !.cache_modified = TRUE, !.sets = @ + 1,
                                           !.all_targets = merge_targets(@, run.parsed)])
  /\ UNCHANGED <<fs, disk, last, used>>
  /\ UNCHANGED parseVars

\* the end of get_targets_for_file (save, errors ignored) and of get_targets
\* (save when modified, errors ignored, then sort by name)
RunFinish ==
  /\ run.pc = "finish"
  /\ LET saving == should_save(run)
     IN \E after \in IF saving THEN save_outcomes(cache, disk) ELSE {disk},
           ok \in BOOLEAN :
          /\ saving => (ok => after = to_string_pretty(cache))
          /\ saving => (~ok => after \in {disk, CorruptFile})
          /\ ~saving => ok
          /\ disk' = after
          /\ run' = [run EXCEPT !.pc = "done",
                                !.result = finish_result(run, ok),
                                !.writes = IF saving THEN @ + 1 ELSE @,
                                !.save_ok = ok]
  /\ UNCHANGED <<fs, cache, last, used>>
  /\ UNCHANGED parseVars

\* another program writes, deletes or locks a Makefile
EditFile ==
  /\ used.edits < MaxEdits
  /\ \E f \in CanonFiles, st \in RunFileStates :
       /\ st # fs[f]
       /\ fs' = [fs EXCEPT ![f] = st]
  /\ run' = IF run.pc = "idle" THEN run ELSE [run EXCEPT !.disturbed = TRUE]
  /\ used' = [used EXCEPT !.edits = @ + 1]
  /\ UNCHANGED <<cache, disk, last>>
  /\ UNCHANGED parseVars

NextRun == RunStart \/ RunLoad \/ RunGet \/ RunParse \/ RunSet \/ RunFinish \/ EditFile

SpecRun == InitRun /\ [][NextRun]_vars

(***************************************************************************)
(* Properties of the invocations, checked under SpecRun                    *)
(***************************************************************************)
\* the target lists of the Makefiles from position k on, parsed afresh in
\* the current file system and merged
RECURSIVE parse_each(_, _, _)
parse_each(paths, opts, all_targets) ==
  IF paths = <<>> THEN Ok(all_targets)
  ELSE IF ~IsOk(parse_makefile(fs, paths[1], opts, 0)) THEN Err
  ELSE parse_each(Tail(paths), opts,
                  merge_targets(all_targets, parse_makefile(fs, paths[1], opts, 0)[2]))

\* what an invocation with the same command line and --no-cache returns in
\* the current file system
NoCacheResult(cli) ==
  IF cli.file # None THEN parse_makefile(fs, cli.file[1], cli.opts, 0)
  ELSE LET parsed == parse_each(find_makefiles(fs, working_dir(cli)), cli.opts, <<>>)
       IN IF IsOk(parsed) THEN Ok(sort_targets(parsed[2])) ELSE Err

\* an invocation with the cache has returned, and no file was edited since it
\* started
CachedRunReturned ==
  /\ run.pc = "done"
  /\ ~run.cli.no_cache
  /\ ~run.disturbed

\* a result with every Target's file written as the canonical path, so that two
\* results differ only when they differ in more than the spelling of a path
canonical_files(result) ==
  IF IsOk(result)
  THEN Ok([k \in 1..Len(result[2]) |-> [result[2][k] EXCEPT !.file = resolve(@)]])
  ELSE result

\* C1: an invocation that uses the cache returns the target list that an
\* invocation with --no-cache returns for the same files and the same options,
\* whatever invocations came before
C1_AsStated ==
  CachedRunReturned
  => canonical_files(run.result[1]) = canonical_files(NoCacheResult(run.cli))

\* the cache was loaded and nothing was stored in it yet
JustLoaded == run.pc = "get" /\ run.idx = 1 /\ ~run.cache_modified

\* C10: load() returns a fresh empty cache when the cache file is missing or
\* has another version, and an error when the file cannot be read or parsed;
\* after `unwrap_or_else` the invocation holds a fresh empty cache in all these
\* cases, with no entry of the old cache
C10_LoadRecovers ==
  JustLoaded =>
    /\ disk.kind = "missing" => run.load_result = Some(Ok(Cache_new))
    /\ (disk.kind = "json" /\ disk.version # CURRENT_VERSION)
         => run.load_result = Some(Ok(Cache_new))
    /\ disk.kind \in {"unreadable", "corrupt"} => run.load_result = Some(Err)
    /\ (disk.kind # "json" \/ disk.version # CURRENT_VERSION) => cache = Cache_new
    /\ (disk.kind = "json" /\ disk.version = CURRENT_VERSION)
         => cache = [version |-> disk.version, entries |-> disk.entries]

\* C10 witness: a cache file of another version, holding an entry, was loaded
C10_Witness ==
  /\ JustLoaded
  /\ disk.kind = "json"
  /\ disk.version # CURRENT_VERSION
  /\ DOMAIN disk.entries # {}
  /\ cache = Cache_new

\* C10 as stated: load() itself returns the fresh empty cache in all three cases
C10_AsStated ==
  (JustLoaded /\ (disk.kind \in {"missing", "corrupt"}
                  \/ (disk.kind = "json" /\ disk.version # CURRENT_VERSION)))
  => run.load_result = Some(Ok(Cache_new))

\* the list the run hands back, given the lists it collected
CollectedList ==
  IF run.cli.file # None THEN run.all_targets ELSE sort_targets(run.all_targets)

\* C11: a run that tried to save the cache returns the list it collected and
\* succeeds, whether the save wrote the file or failed, with -f and without
C11_SaveFailureHarmless ==
  (run.pc = "done" /\ run.writes > 0) => run.result = Some(Ok(CollectedList))

\* C11 witness: a run over a directory whose save failed and left a partial
\* cache file, and that returned a target
C11_Witness ==
  /\ run.pc = "done"
  /\ run.writes > 0
  /\ ~run.save_ok
  /\ run.cli.file = None
  /\ disk = CorruptFile
  /\ run.result # Some(Ok(<<>>))

\* the names of a list are in ascending order
RECURSIVE sorted_by_name(_)
sorted_by_name(ts) ==
  \/ Len(ts) <= 1
  \/ /\ ~str_lt(ts[2].name, ts[1].name)
     /\ sorted_by_name(Tail(ts))

\* C12: the list a run returns is sorted ascending by name, for a directory
\* and for a file given with -f, with and without the cache
C12_AsStated ==
  (run.pc = "done" /\ ~run.disturbed) => sorted_by_name(run.result[1][2])

\* a run over a directory has returned
DirRunReturned == run.pc = "done" /\ run.cli.file = None

\* the target lists of the discovered files, each parsed afresh with the
\* options of the run
FreshLists ==
  [k \in 1..Len(run.makefiles) |->
     parse_makefile(fs, run.makefiles[k], run.cli.opts, 0)[2]]

\* the first discovered file that declares the name under the run's options
FirstFileWith(name) ==
  run.makefiles[Min({k \in 1..Len(run.makefiles) :
                       \E j \in 1..Len(FreshLists[k]) : FreshLists[k][j].name = name})]

\* every name some discovered file declares under the run's options
FreshNames ==
  {FreshLists[k][j].name : <<k, j>> \in
     {kj \in (1..Len(run.makefiles)) \X (1..MaxLines) : kj[2] <= Len(FreshLists[kj[1]])}}

\* C13: in the list a run over a directory returns, names are unique, and a
\* name declared in several files comes from the first of them in discovery
\* order, whether the lists came from the cache or from a parse
C13_AsStated ==
  (DirRunReturned /\ ~run.disturbed) =>
    LET list == run.result[1][2]
    IN /\ \A i, j \in 1..Len(list) : list[i].name = list[j].name => i = j
       /\ \A i \in 1..Len(list) :
            list[i].name \in FreshNames
              => resolve(list[i].file) = resolve(FirstFileWith(list[i].name))

\* the files the run is to read: the file given with -f, or the discovered ones
Candidates ==
  IF run.cli.file # None THEN <<run.cli.file[1]>>
  ELSE find_makefiles(fs, working_dir(run.cli))

\* one of the four fatal conditions holds for the run's command line
FatalCondition ==
  \/ ~dir_exists(working_dir(run.cli))
  \/ run.cli.file # None /\ ~exists(fs, run.cli.file[1])
  \/ run.cli.file = None /\ Candidates = <<>>
  \/ \E k \in 1..Len(Candidates) :
       exists(fs, Candidates[k]) /\ ~IsOk(read_to_string(fs, Candidates[k]))

\* C14: when the working directory does not exist, the file given with -f does
\* not exist, discovery finds no file, or a candidate file cannot be read as
\* text, the run ends with an error and exit status 1 and hands back no list
C14_FatalConditions ==
  (run.pc \in {"done", "failed"} /\ ~run.disturbed /\ FatalCondition)
  => /\ run.pc = "failed"
     /\ run.result = Some(Err)
     /\ exit_status(run.result[1]) = 1

\* C14 witness: the second discovered file cannot be read, after the first
\* one was parsed and stored in the cache
C14_Witness ==
  /\ run.pc = "failed"
  /\ ~run.disturbed
  /\ run.cli.file = None
  /\ run.idx = 2
  /\ run.sets = 1
  /\ ~IsOk(read_to_string(fs, run.makefiles[2]))

(***************************************************************************)
(* Properties of the cache's entries, checked under SpecCache              *)
(***************************************************************************)
\* the newest call is op
Called(op) == Len(last) >= 1 /\ last[1].op = op

\* every entry of the cache but the one under key is as it was before the
\* newest call
OthersUnchanged(key) ==
  /\ DOMAIN cache.entries \ {key} = DOMAIN last[1].before.entries \ {key}
  /\ \A k \in DOMAIN cache.entries \ {key} : cache.entries[k] = last[1].before.entries[k]

\* C15: prune() removes exactly the entries whose key path no longer exists
\* and leaves every other entry as it was; clear() removes all entries; the
\* version is left alone by both
C15_PruneAndClear ==
  /\ Called("prune") =>
       /\ DOMAIN cache.entries = {k \in DOMAIN last[1].before.entries : exists(fs, k)}
       /\ \A k \in DOMAIN cache.entries : cache.entries[k] = last[1].before.entries[k]
       /\ cache.version = last[1].before.version
  /\ Called("clear") =>
       /\ DOMAIN cache.entries = {}
       /\ cache.version = last[1].before.version

\* C15 witness: a prune that removed the entry of a deleted file and kept the
\* entry of a file that exists
C15_Witness ==
  /\ Called("prune")
  /\ DOMAIN last[1].before.entries = CanonFiles
  /\ Cardinality(DOMAIN cache.entries) = 1

\* C16: after set(path, T) and then invalidate(path), whether or not a file
\* changed or was deleted in between, the cache holds no entry under path's
\* key and every other entry is as it was
C16_AsStated ==
  (/\ Called("invalidate")
   /\ \/ Len(last) >= 2 /\ last[2].op = "set" /\ last[2].ok /\ last[2].path = last[1].path
      \/ /\ Len(last) >= 3 /\ last[2].op = "fs"
         /\ last[3].op = "set" /\ last[3].ok /\ last[3].path = last[1].path)
  => /\ resolve(last[1].path) \notin DOMAIN cache.entries
     /\ OthersUnchanged(resolve(last[1].path))

\* C18: a successful set(path, T) leaves under the canonical path an entry
\* with T and the hash of the file's text, replacing the entry that was there,
\* leaves the entries of other files as they were, and a get through any
\* spelling of the same file returns T
C18_SetUpserts ==
  (Called("set") /\ last[1].ok) =>
    LET key == resolve(last[1].path)
    IN /\ key \in DOMAIN cache.entries
       /\ cache.entries[key].targets = last[1].targets
       /\ cache.entries[key].content_hash = compute_hash(file_at(fs, key).text)
       /\ OthersUnchanged(key)
       /\ \A spelling \in ApiPaths :
            resolve(spelling) = key => get(cache, fs, spelling) = Some(last[1].targets)

\* C18 witness: a set through one spelling replaced the entry stored through
\* another spelling, with other targets, while the other file has an entry
C18_Witness ==
  /\ Called("set")
  /\ last[1].ok
  /\ last[1].path = <<".", "Makefile">>
  /\ DOMAIN last[1].before.entries = CanonFiles
  /\ last[1].before.entries[resolve(last[1].path)].targets # last[1].targets
  /\ Len(last) = 3
  /\ last[3].op = "set"
  /\ last[3].path = <<"Makefile">>

(***************************************************************************)
(* Reads and writes of the cache file, checked under SpecRun               *)
(***************************************************************************)
\* the invocation has ended, with a list or with an error
Ended == run.pc \in {"done", "failed"}

\* C17: in one invocation the cache file is loaded at most once and save is
\* called at most once; save is called only after the get and set steps of all
\* files; an invocation that ends with a list has called save exactly when
\* caching was enabled and an entry was set, and an invocation that ends
\* with an error has not called save, even when it set an entry
C17_ReadWriteOnce ==
  /\ run.reads <= 1
  /\ run.writes <= 1
  /\ run.cli.no_cache => run.reads = 0 /\ run.writes = 0
  /\ run.writes = 1 => run.pc = "done"
  /\ run.pc = "done" => (run.writes = 1 <=> (~run.cli.no_cache /\ run.sets > 0))
  /\ run.pc = "failed" => run.writes = 0

\* C17 witness: a run over two files, one a hit and one a miss, has saved
C17_Witness ==
  /\ run.pc = "done"
  /\ run.cli.file = None
  /\ Len(run.makefiles) = 2
  /\ run.reads = 1
  /\ run.sets = 1
  /\ run.writes = 1

\* C17 as stated: the write happens if and only if caching is enabled and an
\* entry was set during the run
C17_AsStated ==
  Ended => (run.writes = 1 <=> (~run.cli.no_cache /\ run.sets > 0))

(***************************************************************************)
(* Entries stored while files change, checked under SpecRun                *)
(***************************************************************************)
\* C21: every entry of the cache of a run pairs a content_hash with targets
\* extracted from the very text that hashes to it, also when another program
\* rewrites the file between the run's parse and its set
C21_AsStated ==
  \A key \in DOMAIN cache.entries :
    \E opts \in ParseOptions :
      [k \in 1..Len(cache.entries[key].targets) |->
         [cache.entries[key].targets[k] EXCEPT !.file = <<"Makefile">>]]
        = parse_makefile_content(cache.entries[key].content_hash[2],
                                 <<"Makefile">>, opts, 0)

(***************************************************************************)
(* The cache file across one run, checked under SpecRun                    *)
(***************************************************************************)
\* C28: with --no-cache the cache file is neither loaded nor saved and is, at
\* every step of the run, what it was when the run started; a run that ends
\* with a list has parsed every discovered file
C28_NoCacheLeavesFile ==
  (run.pc # "idle" /\ run.cli.no_cache) =>
    /\ run.reads = 0
    /\ run.writes = 0
    /\ run.sets = 0
    /\ disk = run.disk0
    /\ run.pc = "done" => run.parses = Len(run.makefiles)
    /\ (run.pc = "done" /\ ~run.disturbed) => run.result = Some(NoCacheResult(run.cli))

\* C28 witness: a --no-cache run over two files has ended with a list while
\* the cache file holds entries of an earlier run
C28_Witness ==
  /\ run.pc = "done"
  /\ run.cli.no_cache
  /\ run.cli.file = None
  /\ run.parses = 2
  /\ disk.kind = "json"
  /\ disk.version = CURRENT_VERSION
  /\ DOMAIN disk.entries # {}

\* C29: when the parse or the set of a file fails, the run ends with an error
\* and the cache file is what it was when the run started, also when entries
\* of earlier files were set in memory
C29_FailureLeavesFile ==
  run.errors > 0 =>
    /\ run.pc = "failed"
    /\ run.result = Some(Err)
    /\ run.writes = 0
    /\ disk = run.disk0

\* C29 witness: the second file of a run could not be parsed after the first
\* was set in the cache of the run
C29_Witness ==
  /\ run.errors > 0
  /\ run.cli.file = None
  /\ run.idx = 2
  /\ run.sets = 1
  /\ DOMAIN cache.entries # {}
  /\ to_string_pretty(cache) # disk

(***************************************************************************)
(* SpecRace: two invocations of the program at the same time, sharing the  *)
(* Makefiles and the cache file (cache.rs load and save, main.rs)          *)
(***************************************************************************)
\* the processes
Procs == {1, 2}

\* the cache file between the File::create and the write_all of fs::write
EmptyFile == [kind |-> "empty"]

RECURSIVE is_subsequence(_, _)
\* whether the list a is the list b with elements left out
is_subsequence(a, b) ==
  IF a = <<>> THEN TRUE
  ELSE IF b = <<>> THEN FALSE
  ELSE IF Head(a) = Head(b) THEN is_subsequence(Tail(a), Tail(b))
  ELSE is_subsequence(a, Tail(b))

\* whether the JSON text of file a is the JSON text of file b with entries or
\* targets left out, so that it has no more bytes than the text of b
no_longer_than(a, b) ==
  /\ a.kind = "json" /\ b.kind = "json"
  /\ a.version = b.version
  /\ DOMAIN a.entries \subseteq DOMAIN b.entries
  /\ \A key \in DOMAIN a.entries :
       /\ a.entries[key].content_hash = b.entries[key].content_hash
       /\ a.entries[key].modified_time = b.entries[key].modified_time
       /\ is_subsequence(a.entries[key].targets, b.entries[key].targets)

\* the write_all of fs::write from the start of a file that was truncated by
\* this process: the bytes written replace the bytes another process wrote
\* since, and what that process wrote beyond them stays and makes the file
\* unparseable; which text is longer is left open where the two differ in
\* more than left-out entries and targets
write_outcomes(own, file) ==
  IF file = EmptyFile \/ file = own \/ no_longer_than(file, own) THEN {own}
  ELSE IF no_longer_than(own, file) THEN {CorruptFile}
  ELSE {own, CorruptFile}

\* the command lines of the two processes
RaceClis == {c \in RunClis : c.cwd = None /\ ~c.no_cache /\ c.file # Some(<<".", "Makefile">>)}

RaceFileStates == {f \in RunFileStates : f.kind \in {"text", "absent"}}

\* a process that has not started
IdleProc ==
  [pc |-> "idle", cli |-> IdleRun.cli,
   makefiles |-> <<>>, idx |-> 1, cache_modified |-> FALSE, parsed |-> <<>>,
   all_targets |-> <<>>, result |-> None, load_result |-> None, disturbed |-> FALSE,
   reads |-> 0, sets |-> 0, writes |-> 0, save_ok |-> TRUE,
   parses |-> 0, errors |-> 0, disk0 |-> MissingFile, observed |-> MissingFile]

InitRace ==
  /\ IdleParseVars
  /\ fs \in [CanonFiles -> RaceFileStates]
  /\ disk \in {MissingFile, OldVersionFile}
  /\ cache = [p \in Procs |-> Cache_new]
  /\ last = <<>>
  /\ run = [p \in Procs |-> IdleProc]
  /\ used = [overlap |-> TRUE, complete |-> {disk}]

\* run() of one process up to the loading of the cache
RaceStart ==
  \E p \in Procs, cli \in RaceClis :
    /\ run[p].pc = "idle"
    /\ LET dir == working_dir(cli)
           found == IF cli.file # None THEN <<cli.file[1]>> ELSE find_makefiles(fs, dir)
           fatal == \/ ~dir_exists(dir)
                    \/ cli.file # None /\ ~exists(fs, cli.file[1])
                    \/ found = <<>>
       IN run' = [run EXCEPT ![p] =
                    IF fatal
                    THEN [IdleProc EXCEPT !.pc = "failed", !.cli = cli, !.result = Some(Err),
                                          !.disk0 = disk]
                    ELSE [IdleProc EXCEPT !.pc = "load", !.cli = cli, !.makefiles = found,
                                          !.disk0 = disk]]
    /\ UNCHANGED <<fs, cache, disk, last, used>>
    /\ UNCHANGED parseVars

\* `Cache::load().unwrap_or_else(|_| Cache::new())` of one process: it reads
\* the cache file as it is at that moment
RaceLoad ==
  \E p \in Procs :
    /\ run[p].pc = "load"
    /\ cache' = [cache EXCEPT ![p] = load_or_new(disk)]
    /\ run' = [run EXCEPT ![p] = [@ EXCEPT !.pc = "get", !.load_result = Some(load(disk)),
                                           !.reads = @ + 1, !.observed = disk]]
    /\ UNCHANGED <<fs, disk, last, used>>
    /\ UNCHANGED parseVars

\* cache.get(makefile_path) of one process
RaceGet ==
  \E p \in Procs :
    /\ run[p].pc = "get"
    /\ LET r == run[p]
           hit == get(cache[p], fs, r.makefiles[r.idx])
       IN run' = [run EXCEPT ![p] =
                    IF hit = None THEN [r EXCEPT !.pc = "parse"]
                    ELSE IF r.cli.file # None
                    THEN [r EXCEPT !.pc = "done", !.result = Some(Ok(hit[1]))]
                    ELSE advance([r EXCEPT !.all_targets = merge_targets(@, hit[1])])]
    /\ UNCHANGED <<fs, cache, disk, last, used>>
    /\ UNCHANGED parseVars

\* makefile::parse_makefile(makefile_path, parse_options)? of one process
RaceParse ==
  \E p \in Procs, random_state \in RandomStates :
    /\ run[p].pc = "parse"
    /\ LET r == run[p]
           parsed == parse_makefile(fs, r.makefiles[r.idx], r.cli.opts, random_state)
       IN run' = [run EXCEPT ![p] =
                    IF ~IsOk(parsed) THEN on_error(r)
                    ELSE [r EXCEPT !.pc = "set", !.parsed = parsed[2], !.parses = @ + 1]]
    /\ UNCHANGED <<fs, cache, disk, last, used>>
    /\ UNCHANGED parseVars

\* cache.set(makefile_path, parsed.clone())? of one process
RaceSet ==
  \E p \in Procs :
    /\ run[p].pc = "set"
    /\ LET r == run[p]
           stored == set(cache[p], fs, r.makefiles[r.idx], r.parsed)
       IN /\ cache' = [cache EXCEPT ![p] = IF IsOk(stored) THEN stored[2] ELSE @]
          /\ run' = [run EXCEPT ![p] =
                       IF ~IsOk(stored) THEN on_error(r)
                       ELSE IF r.cli.file # None
                       THEN [r EXCEPT !.pc = "finish", !.all_targets = r.parsed,
                                      !.sets = @ + 1]
                       ELSE advance([r EXCEPT !.cache_modified = TRUE, !.sets = @ + 1,
                                              !.all_targets = merge_targets(@, r.parsed)])]
    /\ UNCHANGED <<fs, disk, last, used>>
    /\ UNCHANGED parseVars

\* the end of the loop of one process: without a save the list is returned;
\* with a save, fs::write opens the cache file, which truncates it
RaceCreate ==
  \E p \in Procs :
    /\ run[p].pc = "finish"
    /\ LET r == run[p]
       IN IF should_save(r)
          THEN /\ disk' = EmptyFile
               /\ run' = [run EXCEPT ![p] = [r EXCEPT !.pc = "write"]]
               /\ used' = [used EXCEPT !.overlap = @ /\ \A q \in Procs : run[q].reads > 0]
          ELSE /\ run' = [run EXCEPT ![p] = [r EXCEPT !.pc = "done",
                                                      !.result = finish_result(r, TRUE)]]
               /\ UNCHANGED <<disk, used>>
    /\ UNCHANGED <<fs, cache, last>>
    /\ UNCHANGED parseVars

\* fs::write of one process writes the text of its cache and save returns;
\* the list is returned
RaceWrite ==
  \E p \in Procs :
    /\ run[p].pc = "write"
    /\ \E after \in write_outcomes(to_string_pretty(cache[p]), disk) :
         /\ disk' = after
         /\ used' = [used EXCEPT !.complete = @ \cup {to_string_pretty(cache[p])}]
    /\ run' = [run EXCEPT ![p] = [@ EXCEPT !.pc = "done", !.writes = @ + 1,
                                           !.result = finish_result(run[p], TRUE)]]
    /\ last' = <<p>> \o last
    /\ UNCHANGED <<fs, cache>>
    /\ UNCHANGED parseVars

NextRace ==
  RaceStart \/ RaceLoad \/ RaceGet \/ RaceParse \/ RaceSet \/ RaceCreate \/ RaceWrite

SpecRace == InitRace /\ [][NextRace]_vars

(***************************************************************************)
(* Properties of overlapping invocations, checked under SpecRace           *)
(***************************************************************************)
\* both processes have ended after saving, and both had loaded the cache
\* before either began to save
BothSavedOverlapping ==
  /\ \A p \in Procs : run[p].pc = "done" /\ run[p].writes = 1
  /\ used.overlap

\* C22: when two invocations overlap (both load before either saves), the
\* cache file after both have ended is the text of the in-memory cache of the
\* process whose save ended last, and each of its entries pairs a content_hash
\* with targets extracted from the text that hashes to it
C22_AsStated ==
  BothSavedOverlapping =>
    /\ disk = to_string_pretty(cache[last[1]])
    /\ \A key \in DOMAIN disk.entries :
         \E opts \in ParseOptions :
           [k \in 1..Len(disk.entries[key].targets) |->
              [disk.entries[key].targets[k] EXCEPT !.file = <<"Makefile">>]]
             = parse_makefile_content(disk.entries[key].content_hash[2],
                                      <<"Makefile">>, opts, 0)

\* C23: a load that runs while another process saves reads either the complete
\* cache file of before or a complete file written by a save, never a
\* truncated or partially written one
C23_AsStated ==
  \A p \in Procs : run[p].reads > 0 => run[p].observed \in used.complete

(***************************************************************************)
(* Running a target (executor.rs, main.rs handle_pick and handle_run)      *)
(***************************************************************************)
\* build_command: make, then -f and the Makefile when one is given, then the
\* target; the options have no field for variables
build_command(target, opts) ==
  << <<"m", "a", "k", "e">> >>
    \o (IF opts.makefile # None THEN << <<"-", "f">>, opts.makefile[1] >> ELSE <<>>)
    \o <<target>>

\* format_command: cmd.join(" ")
format_command(cmd) == join(cmd, <<" ">>)

\* one printed line: the coloured label and the text after it
line_of(label, text) == [label |-> label, text |-> text]

\* execute_target up to run_make_command: what is printed, whether make is
\* launched, and the result when it is not (ExitStatus::default() is success)
execute_target(target, opts) ==
  LET cmd_str == format_command(build_command(target, opts))
  IN IF opts.dry_run
     THEN [printed |-> <<line_of("Would run:", cmd_str)>>, launch |-> FALSE,
           result |-> Some(Ok(0))]
     ELSE [printed |-> IF opts.print_cmd THEN <<line_of("Running:", cmd_str)>> ELSE <<>>,
           launch |-> TRUE, result |-> None]

\* format!(" {}", variables k=v joined by " "), or nothing without variables
vars_str(variables) ==
  IF variables = <<>> THEN <<>>
  ELSE <<" ">> \o join([k \in 1..Len(variables) |->
                          variables[k][1] \o <<"=">> \o variables[k][2]], <<" ">>)

\* the else branch of handle_pick: "Would run: make {name}{vars_str}"
pick_dry_run_line(name, variables) ==
  line_of("Would run:", <<"m", "a", "k", "e", " ">> \o name \o vars_str(variables))

\* run_make_command: the exit code of make, or an error when make cannot be
\* started
MakeOutcomes == {Ok(0), Ok(2), Err}

\* the targets offered to the picker and looked up by `run`
ExecTargets ==
  { [name |-> <<"b">>, required_vars |-> <<>>],
    [name |-> <<"t">>, required_vars |-> <<[name |-> <<"V">>, hint |-> None]>>] }

\* the names given to `run`: one of them is no target of the Makefile
ExecNames == { <<"b">>, <<"t">>, <<"z">> }

\* the command lines: --dry-run, --no-ui and -f
ExecClis ==
  [dry_run : BOOLEAN, no_ui : BOOLEAN, file : {None, Some(<<"c", ".", "m", "k">>)}]

\* what the user types at a prompt
PromptValues == { <<"1">>, <<"2">> }

\* the ExecuteOptions built by handle_pick and handle_run
exec_options(cli, variables) ==
  [dry_run |-> cli.dry_run, print_cmd |-> TRUE, makefile |-> cli.file,
   variables |-> variables]

\* no command handled yet
IdleExec ==
  [pc |-> "idle", command |-> "pick",
   cli |-> [dry_run |-> FALSE, no_ui |-> FALSE, file |-> None],
   target |-> None, required_vars |-> <<>>, variables |-> <<>>,
   printed |-> <<>>, launches |-> 0, result |-> None, exit |-> None]

InitExec ==
  /\ IdleParseVars
  /\ fs = <<>> /\ cache = <<>> /\ disk = <<>> /\ last = <<>> /\ used = <<>>
  /\ run = IdleExec

\* after the choice of the target: prompt when it has required variables
chosen(r, name, required_vars) ==
  [r EXCEPT !.target = Some(name), !.required_vars = required_vars,
            !.pc = IF required_vars # <<>> THEN "prompt" ELSE "execute"]

\* handle_pick up to the prompts: the list with --no-ui, else the picker, whose
\* user selects a target, selects none, or whose terminal fails
PickStart ==
  /\ run.pc = "idle"
  /\ \E cli \in ExecClis, selected \in {Err, Ok(None)} \cup {Ok(Some(t)) : t \in ExecTargets} :
       LET r == [run EXCEPT !.command = "pick", !.cli = cli]
       IN run' = IF cli.no_ui
                 THEN [r EXCEPT !.pc = "done", !.printed = <<line_of("list", <<>>)>>,
                                !.result = Some(Ok(0))]
                 ELSE IF ~IsOk(selected)
                 THEN [r EXCEPT !.pc = "failed", !.result = Some(Err)]
                 ELSE IF selected[2] = None
                 THEN [r EXCEPT !.pc = "done", !.result = Some(Ok(0)),
                                !.printed = <<line_of("No target selected.", <<>>)>>]
                 ELSE chosen([r EXCEPT !.printed = <<line_of("Selected:", selected[2][1].name)>>],
                             selected[2][1].name, selected[2][1].required_vars)
  /\ UNCHANGED <<fs, cache, disk, last, used>>
  /\ UNCHANGED parseVars

\* handle_run up to the prompts: the target is looked up by name, and a name
\* that is not found is run without prompts
RunTargetStart ==
  /\ run.pc = "idle"
  /\ \E cli \in ExecClis, target_name \in ExecNames :
       LET found == {t \in ExecTargets : t.name = target_name}
           r == [run EXCEPT !.command = "run", !.cli = cli]
       IN run' = chosen(r, target_name,
                        IF found = {} THEN <<>> ELSE (CHOOSE t \in found : TRUE).required_vars)
  /\ UNCHANGED <<fs, cache, disk, last, used>>
  /\ UNCHANGED parseVars

\* prompt::prompt_for_variables(&target.required_vars)?: a value for each
\* variable, or the error of the terminal
ExecPrompt ==
  /\ run.pc = "prompt"
  /\ \E answer \in {Err} \cup {Ok(v) : v \in PromptValues} :
       run' = IF ~IsOk(answer)
              THEN [run EXCEPT !.pc = "failed", !.result = Some(Err)]
              ELSE [run EXCEPT !.pc = "execute",
                               !.variables = [k \in 1..Len(run.required_vars) |->
                                                <<run.required_vars[k].name, answer[2]>>]]
  /\ UNCHANGED <<fs, cache, disk, last, used>>
  /\ UNCHANGED parseVars

\* handle_pick: `if !cli.dry_run { execute_target } else { println! }`;
\* handle_run: execute_target in every case
ExecTarget ==
  /\ run.pc = "execute"
  /\ LET done == execute_target(run.target[1], exec_options(run.cli, run.variables))
     IN run' = IF run.command = "pick" /\ run.cli.dry_run
               THEN [run EXCEPT !.pc = "done", !.result = Some(Ok(0)),
                                !.printed = @ \o <<pick_dry_run_line(run.target[1],
                                                                     run.variables)>>]
               ELSE IF done.launch
               THEN [run EXCEPT !.pc = "make", !.printed = @ \o done.printed,
                                !.launches = @ + 1]
               ELSE [run EXCEPT !.pc = "done", !.printed = @ \o done.printed,
                                !.result = done.result]
  /\ UNCHANGED <<fs, cache, disk, last, used>>
  /\ UNCHANGED parseVars

\* run_make_command returns: an error is passed on by `?`, a failing status
\* ends the process with its code
ExecMake ==
  /\ run.pc = "make"
  /\ \E status \in MakeOutcomes :
       run' = IF ~IsOk(status) THEN [run EXCEPT !.pc = "failed", !.result = Some(Err)]
              ELSE IF status[2] # 0 THEN [run EXCEPT !.pc = "exited", !.exit = Some(status[2])]
              ELSE [run EXCEPT !.pc = "done", !.result = Some(Ok(0))]
  /\ UNCHANGED <<fs, cache, disk, last, used>>
  /\ UNCHANGED parseVars

NextExec == PickStart \/ RunTargetStart \/ ExecPrompt \/ ExecTarget \/ ExecMake

SpecExec == InitExec /\ [][NextExec]_vars

(***************************************************************************)
(* Dry runs, checked under SpecExec                                        *)
(***************************************************************************)
\* with --dry-run make is never launched, on either path, and a handler that
\* got its target and its variables ends with success after printing one
\* "Would run:" line
DryRunNeverLaunches ==
  (run.pc # "idle" /\ run.cli.dry_run) =>
    /\ run.launches = 0
    /\ run.pc \in {"prompt", "execute", "done", "failed"}
    /\ (run.pc = "done" /\ run.target # None) =>
         /\ run.result = Some(Ok(0))
         /\ run.printed[Len(run.printed)].label = "Would run:"
         /\ \A k \in 1..Len(run.printed) : run.printed[k].label # "Running:"

\* a dry run of a target without variables has ended
DryRunEnded ==
  /\ run.pc = "done"
  /\ run.cli.dry_run
  /\ run.target # None
  /\ run.variables = <<>>

\* C30: with --dry-run make is never launched, on the pick path and on the run
\* path alike; the line printed is the command that would run without
\* --dry-run, and the handler ends with success
C30_AsStated ==
  DryRunEnded =>
    /\ run.launches = 0
    /\ run.result = Some(Ok(0))
    /\ run.printed[Len(run.printed)]
         = line_of("Would run:",
                   format_command(build_command(run.target[1],
                                                exec_options(run.cli, run.variables))))

====
